---- MODULE Spec2Model ----
(***************************************************************************)
(* Resource-allocation core of the ai-convobot backend:                    *)
(*   - ContextManager (context_manager.rs): context sizing, token budget,  *)
(*     response-budget crisis recovery;                                    *)
(*   - TokenBudget / TokenUsageMonitor (token_budget.rs);                  *)
(*   - SystemMemoryDetector (system_memory.rs);                            *)
(*   - GpuAllocator (gpu_allocator.rs).                                    *)
(*                                                                         *)
(* Numbers.  The code computes percentages in f32 and truncates to usize.  *)
(* For the constants used below (0.10 0.15 0.20 0.25 0.40 0.50 0.70 0.80   *)
(* 0.85 0.90 1.0 1.5) and every n < 131072, ((n as f32) * c) as usize is   *)
(* the exact floor(n * c); for 1.3 this holds for every n < 90, and        *)
(* ((n as f32) / 4.0) as usize equals n div 4.  All operands of the model  *)
(* stay inside these ranges, so MulTrunc below is the code's result.       *)
(* RAM sizes are f32 gigabytes in the code; the model counts them in       *)
(* units of 1/64 GB (all inputs are multiples of 1/2 GB, so every product  *)
(* the code forms is exact in f32 and in these units).                     *)
(***************************************************************************)
EXTENDS Integers, Sequences, FiniteSets, TLC

VARIABLES
    \* ---- ContextManager (context_manager.rs:5-16)
    config,                     \* ConfigView fields the core reads
    token_budget,               \* TokenBudget
    usage_monitor,              \* TokenUsageMonitor
    hybrid_context_allocation,  \* Option<HybridContextAllocation>: <<>> or <<h>>
    system_token_budget,        \* legacy fields
    attitude_token_budget,
    message_token_budget,
    response_token_budget,
    last,                       \* history: the last call on the manager
    \* ---- TokenBudget::from_vram_limit as a function (token_budget.rs:23-50)
    budget_args,                \* <<>> or <<[vram_gb, max_configured]>>
    budget_result,              \* <<>> or <<TokenBudget>>
    \* ---- calculate_memory_allocation as a function (system_memory.rs:265-286)
    memory_args,                \* <<>> or <<[cfg, memory_info]>>
    memory_result,              \* <<>> or <<MemoryAllocation>>
    \* ---- calculate_hybrid_context_size as a function (context_manager.rs:89-168)
    hybrid_args,                \* <<>> or <<[cfg, detected]>>
    hybrid_result,              \* <<>> or <<[size, allocation]>>
    \* ---- GpuAllocator (gpu_allocator.rs)
    allocator,                  \* GpuAllocator: safety margin (percent), min free MB
    gpu_info,                   \* GpuMemoryInfo snapshot the layers are computed from
    model,                      \* model size (MB) and layer count
    allocation,                 \* <<>> or <<LayerAllocation>>: the last computed
    alloc_call,                 \* <<>> or <<[fn, vram_limit_gb]>>: the call that made it
    prev_allocation,            \* the allocation computed before that one
    prev_call,
    suggestion,                 \* <<>> or <<LayerAllocation>>: the last suggestion
    monitor_call,               \* <<>> or <<[current, live]>>: the call that made it
    \* ---- TokenUsageMonitor (token_budget.rs:65-98)
    monitor,                    \* TokenUsageMonitor
    opt_call,                   \* <<>> or the last optimize_* call: input, output, usage
    statistics,                 \* <<>> or <<TokenUsageStatistics>>: the last one returned
    \* ---- manage_message_context / handle_context_overflow (context_manager.rs)
    manage_call,                \* <<>> or <<[messages, returned]>>: the last call
    context,                    \* <<>> or <<OptimizedContext>>
    overflow_call,              \* <<>> or <<[before, after, returned]>>: the last call
    \* ---- InferenceOptimizer and its callers (inference_optimizer.rs)
    prompt_cache,               \* HashMap: hash -> <<>> or <<CachedPrompt>>
    stats,                      \* InferenceStats
    cache_lock,                 \* the RwLock around prompt_cache: writer, readers, poisoned
    stats_lock,                 \* the RwLock around stats
    pc,                         \* where each calling thread stands
    local,                      \* each thread's hash and cloned entry
    ret,                        \* history: how each thread's last call ended
    now,                        \* Instant::now()
    \* ---- SessionManager and its callers (session_manager.rs)
    sessions,                   \* HashMap: id -> <<>> or <<Session>>
    utc_now,                    \* Utc::now(), in minutes
    next_uuid,                  \* the next id Uuid::new_v4() gives
    database,                   \* companion_attitudes: target -> <<>> or <<attitude>>
    session_pc,                 \* where each calling thread stands
    session_local,              \* each thread's argument and what its lookup found
    session_ret,                \* history: <<>> or the last call that returned
    ended                       \* history: the ids whose end_session returned Ok

ctxVars == <<config, token_budget, usage_monitor, hybrid_context_allocation,
             system_token_budget, attitude_token_budget, message_token_budget,
             response_token_budget, last>>

fnVars == <<budget_args, budget_result, memory_args, memory_result,
            hybrid_args, hybrid_result>>

gpuVars == <<allocator, gpu_info, model, allocation, alloc_call, prev_allocation,
             prev_call, suggestion, monitor_call>>

monVars == <<monitor, opt_call, statistics>>

msgVars == <<manage_call, context, overflow_call>>

cacheVars == <<prompt_cache, stats, cache_lock, stats_lock, pc, local, ret, now>>

sessVars == <<sessions, utc_now, next_uuid, database, session_pc, session_local, session_ret, ended>>

vars == <<ctxVars, fnVars, gpuVars, monVars, msgVars, cacheVars, sessVars>>

\* What each part's operations leave alone
notCtx == <<fnVars, gpuVars, monVars, msgVars, cacheVars, sessVars>>
notFn  == <<ctxVars, gpuVars, monVars, msgVars, cacheVars, sessVars>>
notGpu == <<ctxVars, fnVars, monVars, msgVars, cacheVars, sessVars>>
notMon == <<ctxVars, fnVars, gpuVars, msgVars, cacheVars, sessVars>>
notMsg == <<fnVars, gpuVars, monVars, cacheVars, sessVars>>
notCache == <<ctxVars, fnVars, gpuVars, monVars, msgVars, sessVars>>
notSess == <<ctxVars, fnVars, gpuVars, monVars, msgVars, cacheVars>>

-----------------------------------------------------------------------------
(* Bounds of the model *)

\* vram_gb arguments of from_vram_limit range over 0..MaxVramGb
MaxVramGb == 8
\* configured VRAM limits (GB) of the layer allocator range over 0..MaxLimitGb
MaxLimitGb == 7
\* optimize_* is called afresh while the monitor has counted fewer filtered or
\* compressed items than this
MaxStatEvents == 2
\* system prompts of 0..MaxSystemTokens tokens
MaxSystemTokens == 9
\* get_usage_statistics is called while overflow_events is below this
MaxOverflowEvents == 2

(* Program constants *)

\* handle_response_budget_crisis: "no crisis" from this response budget on
CrisisThreshold == 100
\* RAM quantities are counted in 1/GbUnit GB
GbUnit == 64
\* calculate_hybrid_context_size: tokens per GB of RAM (1024.0 * 256.0)
TokensPerGb == 262144

-----------------------------------------------------------------------------
(* Arithmetic helpers *)

Min(a, b) == IF a <= b THEN a ELSE b
Max(a, b) == IF a >= b THEN a ELSE b

\* ((n as f32) * (num/den)) as usize
MulTrunc(n, num, den) == (n * num) \div den

\* a.saturating_sub(b)
SatSub(a, b) == IF a > b THEN a - b ELSE 0

-----------------------------------------------------------------------------
(* token_budget.rs: TokenBudget *)

VramTierOf(vram_gb) ==
    IF vram_gb <= 2 THEN "Minimal"
    ELSE IF vram_gb <= 4 THEN "Standard"
    ELSE IF vram_gb <= 6 THEN "Extended"
    ELSE "Maximum"

\* Mutant of TierBaseTotal: the tier boundaries are exclusive
TierBaseTotal_ExclusiveBounds(vram_gb) ==
    IF vram_gb < 2 THEN 1024
    ELSE IF vram_gb < 4 THEN 2048
    ELSE IF vram_gb < 6 THEN 3072
    ELSE 4096

TierBaseTotal(vram_gb) ==
    IF vram_gb <= 2 THEN 1024
    ELSE IF vram_gb <= 4 THEN 2048
    ELSE IF vram_gb <= 6 THEN 3072
    ELSE 4096

\* TokenBudget::from_vram_limit(vram_gb, max_configured)
from_vram_limit(vram_gb, max_configured) ==
    LET total == Min(TierBaseTotal(vram_gb), max_configured)
    IN  [ total            |-> total,
          system_prompt    |-> MulTrunc(total, 15, 100),
          attitude_data    |-> MulTrunc(total, 20, 100),
          third_party_info |-> MulTrunc(total, 10, 100),
          recent_messages  |-> MulTrunc(total, 40, 100),
          response_buffer  |-> MulTrunc(total, 15, 100),
          vram_tier        |-> VramTierOf(vram_gb) ]

BudgetSum(b) ==
    b.system_prompt + b.attitude_data + b.third_party_info
        + b.recent_messages + b.response_buffer

ZeroUsage ==
    [ system_tokens |-> 0, attitude_tokens |-> 0, third_party_tokens |-> 0,
      message_tokens |-> 0, total_context_tokens |-> 0 ]

ZeroStats ==
    [ messages_compressed |-> 0, attitudes_filtered |-> 0,
      third_parties_filtered |-> 0, total_savings |-> 0, overflow_events |-> 0 ]

\* TokenUsageMonitor::new(budget)
NewMonitor(budget) ==
    [ budget |-> budget, current_usage |-> ZeroUsage, optimization_stats |-> ZeroStats ]

-----------------------------------------------------------------------------
(* system_memory.rs: SystemMemoryDetector *)

\* with_safety_margin(config.ram_safety_margin_gb): margin_gb.max(0.5)
DetectorSafetyMargin(cfg) == Max(cfg.ram_safety_margin_gb * GbUnit, GbUnit \div 2)
\* with_max_usage(config.max_system_ram_usage_gb): max_gb.max(1.0)
DetectorMaxUsage(cfg) == Max(cfg.max_system_ram_usage_gb * GbUnit, GbUnit)

\* Mutant of determine_strategy: the size classes start one gigabyte later
determine_strategy_LateClasses(mi) ==
    IF mi.utilization_percent > 85 \/ mi.available_ram < 4 * GbUnit
    THEN "VramOnly"
    ELSE LET t == mi.total_ram \div GbUnit
         IN  IF t <= 8 THEN "VramOnly"
             ELSE IF t <= 16 THEN "Conservative"
             ELSE IF t <= 32 THEN "Balanced"
             ELSE "Aggressive"

\* determine_strategy(memory_info)
determine_strategy(mi) ==
    IF mi.utilization_percent > 85 \/ mi.available_ram < 4 * GbUnit
    THEN "VramOnly"
    ELSE LET t == mi.total_ram \div GbUnit     \* total_ram_gb as u32
         IN  IF t <= 7 THEN "VramOnly"
             ELSE IF t <= 15 THEN "Conservative"
             ELSE IF t <= 31 THEN "Balanced"
             ELSE "Aggressive"

\* calculate_memory_allocation(memory_info)
calculate_memory_allocation(cfg, mi) ==
    LET available_after_safety == Max(mi.available_ram - DetectorSafetyMargin(cfg), 0)
        strategy == determine_strategy(mi)
        rec == CASE strategy = "VramOnly"     -> 0
                 [] strategy = "Conservative" -> Min(MulTrunc(available_after_safety, 25, 100), DetectorMaxUsage(cfg))
                 [] strategy = "Balanced"     -> Min(MulTrunc(available_after_safety, 50, 100), DetectorMaxUsage(cfg))
                 [] strategy = "Aggressive"   -> Min(MulTrunc(available_after_safety, 75, 100), DetectorMaxUsage(cfg))
    IN  [ available_for_context |-> available_after_safety,
          safety_margin         |-> DetectorSafetyMargin(cfg),
          recommended_usage     |-> Max(rec, 0),
          allocation_strategy   |-> strategy ]

\* is_memory_pressure(memory_info)
is_memory_pressure(cfg, mi) ==
    mi.utilization_percent > 85 \/ mi.available_ram < DetectorSafetyMargin(cfg)

\* What detect_system_memory() can return: Err is <<>>, Ok(info) is <<info>>.
\* RAM in 1/GbUnit GB, utilization in percent.
MemoryInfos ==
    { [ total_ram |-> 12 * GbUnit, available_ram |-> 6 * GbUnit,  utilization_percent |-> 50 ],
      [ total_ram |-> 24 * GbUnit, available_ram |-> 12 * GbUnit, utilization_percent |-> 50 ],
      [ total_ram |-> 16 * GbUnit, available_ram |-> 8 * GbUnit,  utilization_percent |-> 90 ] }

DetectResults == { <<>> } \cup { <<mi>> : mi \in MemoryInfos }

-----------------------------------------------------------------------------
(* context_manager.rs: ContextManager *)

\* calculate_dynamic_context_size(vram_gb, configured_size)
calculate_dynamic_context_size(vram_gb, configured_size) ==
    Min(TierBaseTotal(vram_gb), configured_size)

\* Mutant of ResolveHybridStrategy: the strategist's result always wins
ResolveHybridStrategy_StrategistFirst(cfg, memory_allocation) ==
    memory_allocation.allocation_strategy

\* match config.context_expansion_strategy.as_str() { ... }
ResolveHybridStrategy(cfg, memory_allocation) ==
    CASE cfg.context_expansion_strategy = "conservative" -> "Conservative"
      [] cfg.context_expansion_strategy = "balanced"     -> "Balanced"
      [] cfg.context_expansion_strategy = "aggressive"   -> "Aggressive"
      [] cfg.context_expansion_strategy = "vram_only"    -> "VramOnly"
      [] OTHER -> memory_allocation.allocation_strategy

\* RAM context bonus of a strategy
RamContextTokens(hybrid_strategy, base_vram_context) ==
    CASE hybrid_strategy = "VramOnly"     -> 0
      [] hybrid_strategy = "Conservative" -> MulTrunc(base_vram_context, 25, 100)
      [] hybrid_strategy = "Balanced"     -> MulTrunc(base_vram_context, 50, 100)
      [] hybrid_strategy = "Aggressive"   -> MulTrunc(base_vram_context, 100, 100)

\* Mutant of calculate_hybrid_context_size: no fallback on a small recommendation
calculate_hybrid_context_size_NoFallback(cfg, detected) ==
    LET vram_size == calculate_dynamic_context_size(cfg.vram_limit_gb, cfg.context_window_size)
    IN  IF detected = <<>>
        THEN <<vram_size, <<>> >>
        ELSE
        LET system_memory_info == detected[1]
            memory_allocation == calculate_memory_allocation(cfg, system_memory_info)
            hybrid_strategy == ResolveHybridStrategy(cfg, memory_allocation)
            ram_context_tokens ==
                Min(RamContextTokens(hybrid_strategy, vram_size),
                    memory_allocation.recommended_usage * (TokensPerGb \div GbUnit))
            final_total_context == Min(vram_size + ram_context_tokens, cfg.context_window_size)
        IN  << final_total_context,
               << [ total_context_tokens      |-> final_total_context,
                    vram_context_tokens       |-> vram_size,
                    system_ram_context_tokens |-> final_total_context - vram_size,
                    allocation_strategy       |-> hybrid_strategy,
                    system_memory_info        |-> system_memory_info ] >> >>

\* calculate_hybrid_context_size(config, detector) with the detection result
\* `detected`; returns <<context size, Option<HybridContextAllocation>>>
calculate_hybrid_context_size(cfg, detected) ==
    LET vram_size == calculate_dynamic_context_size(cfg.vram_limit_gb, cfg.context_window_size)
    IN  IF detected = <<>>
        THEN <<vram_size, <<>> >>
        ELSE
        LET system_memory_info == detected[1]
            memory_allocation == calculate_memory_allocation(cfg, system_memory_info)
        IN  IF memory_allocation.recommended_usage < GbUnit
               \/ is_memory_pressure(cfg, system_memory_info)
            THEN <<vram_size, <<>> >>
            ELSE
            LET base_vram_context == vram_size
                hybrid_strategy == ResolveHybridStrategy(cfg, memory_allocation)
                ram_context_tokens == RamContextTokens(hybrid_strategy, base_vram_context)
                max_ram_tokens == memory_allocation.recommended_usage * (TokensPerGb \div GbUnit)
                final_ram_context_tokens == Min(ram_context_tokens, max_ram_tokens)
                total_context_tokens == base_vram_context + final_ram_context_tokens
                final_total_context == Min(total_context_tokens, cfg.context_window_size)
                final_ram_context == IF final_total_context > base_vram_context
                                     THEN final_total_context - base_vram_context
                                     ELSE 0
            IN  << final_total_context,
                   << [ total_context_tokens      |-> final_total_context,
                        vram_context_tokens       |-> base_vram_context,
                        system_ram_context_tokens |-> final_ram_context,
                        allocation_strategy       |-> hybrid_strategy,
                        system_memory_info        |-> system_memory_info ] >> >>

\* try_expand_context_window()
try_expand_context_window(cfg, detected) ==
    calculate_hybrid_context_size(cfg, detected)[2]

\* can_expand_ram_allocation(current_allocation)
can_expand_ram_allocation(cfg, detected) ==
    IF detected = <<>> THEN FALSE
    ELSE calculate_memory_allocation(cfg, detected[1]).recommended_usage > GbUnit
         /\ ~is_memory_pressure(cfg, detected[1])

\* Mutant of expand_ram_allocation: the grown total is not clamped to
\* config.context_window_size
expand_ram_allocation_Unclamped(cfg, hybrid) ==
    IF hybrid = <<>> THEN <<>>
    ELSE
    LET current == hybrid[1]
        new_ram_tokens == MulTrunc(current.system_ram_context_tokens, 3, 2)
        final_total == current.vram_context_tokens + new_ram_tokens
        final_ram == new_ram_tokens
    IN  IF final_ram > current.system_ram_context_tokens
        THEN << [ total_context_tokens      |-> final_total,
                  vram_context_tokens       |-> current.vram_context_tokens,
                  system_ram_context_tokens |-> final_ram,
                  allocation_strategy       |-> current.allocation_strategy,
                  system_memory_info        |-> current.system_memory_info ] >>
        ELSE <<>>

\* expand_ram_allocation(): Option<HybridContextAllocation>
expand_ram_allocation(cfg, hybrid) ==
    IF hybrid = <<>> THEN <<>>
    ELSE
    LET current == hybrid[1]
        new_ram_tokens == MulTrunc(current.system_ram_context_tokens, 3, 2)
        new_total_tokens == current.vram_context_tokens + new_ram_tokens
        final_total == Min(new_total_tokens, cfg.context_window_size)
        final_ram == IF final_total > current.vram_context_tokens
                     THEN final_total - current.vram_context_tokens
                     ELSE current.system_ram_context_tokens
    IN  IF final_ram > current.system_ram_context_tokens
        THEN << [ total_context_tokens      |-> final_total,
                  vram_context_tokens       |-> current.vram_context_tokens,
                  system_ram_context_tokens |-> final_ram,
                  allocation_strategy       |-> current.allocation_strategy,
                  system_memory_info        |-> current.system_memory_info ] >>
        ELSE <<>>

\* Mutant of reallocate_token_budget_for_response: third_party_info keeps the
\* tokens that are also added to response_buffer
reallocate_token_budget_for_response_KeepsThirdParty(tb) ==
    LET attitude_reduction == MulTrunc(tb.attitude_data, 25, 100)
        third_party_reduction == MulTrunc(tb.third_party_info, 50, 100)
    IN  [ tb EXCEPT !.attitude_data = @ - attitude_reduction,
                    !.response_buffer = @ + attitude_reduction + third_party_reduction ]

\* Mutant of reallocate_token_budget_for_response: the freed tokens are not
\* added to response_buffer
reallocate_token_budget_for_response_DropsFreed(tb) ==
    LET attitude_reduction == MulTrunc(tb.attitude_data, 25, 100)
        third_party_reduction == MulTrunc(tb.third_party_info, 50, 100)
    IN  [ tb EXCEPT !.attitude_data = @ - attitude_reduction,
                    !.third_party_info = @ - third_party_reduction ]

\* Mutant of reallocate_token_budget_for_response: a category that has run dry
\* is refilled from response_buffer
reallocate_token_budget_for_response_Refills(tb) ==
    LET attitude_reduction == MulTrunc(tb.attitude_data, 25, 100)
        third_party_reduction == MulTrunc(tb.third_party_info, 50, 100)
        additional_response_tokens == attitude_reduction + third_party_reduction
    IN  IF additional_response_tokens = 0 /\ tb.response_buffer >= 4
        THEN [ tb EXCEPT !.attitude_data = @ + 4, !.response_buffer = @ - 4 ]
        ELSE [ tb EXCEPT !.attitude_data = @ - attitude_reduction,
                         !.third_party_info = @ - third_party_reduction,
                         !.response_buffer = @ + additional_response_tokens ]

\* reallocate_token_budget_for_response(): the new token_budget
reallocate_token_budget_for_response(tb) ==
    LET attitude_reduction == MulTrunc(tb.attitude_data, 25, 100)
        third_party_reduction == MulTrunc(tb.third_party_info, 50, 100)
        additional_response_tokens == attitude_reduction + third_party_reduction
    IN  [ tb EXCEPT !.attitude_data = @ - attitude_reduction,
                    !.third_party_info = @ - third_party_reduction,
                    !.response_buffer = @ + additional_response_tokens ]

\* recalculate_token_budget(): the new token_budget for an active allocation
recalculate_token_budget(cfg, hybrid) ==
    from_vram_limit(cfg.vram_limit_gb, hybrid[1].total_context_tokens)

\* ContextManager::new(config): the context size and allocation it starts from
NewContextSize(cfg, detected) ==
    IF cfg.enable_hybrid_context
    THEN calculate_hybrid_context_size(cfg, detected)
    ELSE IF cfg.enable_dynamic_context
    THEN << calculate_dynamic_context_size(cfg.vram_limit_gb, cfg.context_window_size), <<>> >>
    ELSE << cfg.context_window_size, <<>> >>

-----------------------------------------------------------------------------
(* The ContextManager as a state machine *)

\* vram_limit_gb values, one per tier boundary
VramLimits == {2, 4, 7}
\* context_window_size values: tiny, and between the tiers' base sizes
WindowSizes == {40, 3000}
ExpansionStrategies == {"conservative", "balanced", "aggressive", "vram_only", "auto"}
\* current_response_budget arguments around the threshold
ResponseBudgets == {CrisisThreshold - 1, CrisisThreshold}

Configs ==
    [ vram_limit_gb              : VramLimits,
      context_window_size        : WindowSizes,
      enable_hybrid_context      : BOOLEAN,
      enable_dynamic_context     : BOOLEAN,
      context_expansion_strategy : ExpansionStrategies,
      ram_safety_margin_gb       : {2},
      max_system_ram_usage_gb    : {8} ]

\* ContextManager::new(config), the memory probe answering `detected`
New(cfg, detected) ==
    LET sized == NewContextSize(cfg, detected)
        tb == from_vram_limit(cfg.vram_limit_gb, sized[1])
    IN  /\ config = cfg
        /\ token_budget = tb
        /\ usage_monitor = NewMonitor(tb)
        /\ hybrid_context_allocation = sized[2]
        /\ system_token_budget = tb.system_prompt
        /\ attitude_token_budget = tb.attitude_data
        /\ message_token_budget = tb.recent_messages
        /\ response_token_budget = tb.response_buffer
        /\ last = [ op |-> "new", ret |-> FALSE, strategy |-> 0, pre |-> tb ]

\* Mutant of CrisisStrategy: strategy 1 is tried whether or not hybrid context
\* is enabled
CrisisStrategy_IgnoresFlag(cfg, hybrid, crb, detected) ==
    IF crb >= CrisisThreshold THEN 0
    ELSE IF hybrid = <<>> /\ try_expand_context_window(cfg, detected) # <<>>
    THEN 1
    ELSE IF hybrid # <<>> /\ can_expand_ram_allocation(cfg, detected)
            /\ expand_ram_allocation(cfg, hybrid) # <<>>
    THEN 2
    ELSE 3

\* Which branch handle_response_budget_crisis(crb) takes when the memory probe
\* answers `detected`: 0 no crisis, 1 build allocation, 2 grow RAM part,
\* 3 reallocate inside the budget
CrisisStrategy(cfg, hybrid, crb, detected) ==
    IF crb >= CrisisThreshold THEN 0
    ELSE IF cfg.enable_hybrid_context /\ hybrid = <<>>
            /\ try_expand_context_window(cfg, detected) # <<>>
    THEN 1
    ELSE IF hybrid # <<>> /\ can_expand_ram_allocation(cfg, detected)
            /\ expand_ram_allocation(cfg, hybrid) # <<>>
    THEN 2
    ELSE 3

\* handle_response_budget_crisis: return value of each branch
CrisisReturn(strategy) == strategy \in {1, 2}

\* if current_response_budget >= 100 { return false; }
CrisisNone(crb, detected) ==
    /\ CrisisStrategy(config, hybrid_context_allocation, crb, detected) = 0
    /\ last' = [ op |-> "crisis", ret |-> CrisisReturn(0), strategy |-> 0,
                 pre |-> token_budget ]
    /\ UNCHANGED <<config, token_budget, usage_monitor, hybrid_context_allocation,
                   system_token_budget, attitude_token_budget, message_token_budget,
                   response_token_budget, notCtx>>

\* Strategies 1 and 2: install the allocation, recalculate_token_budget(), return true
CrisisRebuild(crb, detected, strategy, expanded_allocation) ==
    LET tb == recalculate_token_budget(config, expanded_allocation)
    IN  /\ hybrid_context_allocation' = expanded_allocation
        /\ token_budget' = tb
        /\ usage_monitor' = NewMonitor(tb)
        /\ system_token_budget' = tb.system_prompt
        /\ attitude_token_budget' = tb.attitude_data
        /\ message_token_budget' = tb.recent_messages
        /\ response_token_budget' = tb.response_buffer
        /\ last' = [ op |-> "crisis", ret |-> CrisisReturn(strategy),
                     strategy |-> strategy, pre |-> token_budget ]
        /\ UNCHANGED <<config, notCtx>>

CrisisExpandWindow(crb, detected) ==
    /\ CrisisStrategy(config, hybrid_context_allocation, crb, detected) = 1
    /\ CrisisRebuild(crb, detected, 1, try_expand_context_window(config, detected))

CrisisExpandRam(crb, detected) ==
    /\ CrisisStrategy(config, hybrid_context_allocation, crb, detected) = 2
    /\ CrisisRebuild(crb, detected, 2, expand_ram_allocation(config, hybrid_context_allocation))

\* Strategy 3: reallocate_token_budget_for_response(), return false
CrisisReallocate(crb, detected) ==
    /\ CrisisStrategy(config, hybrid_context_allocation, crb, detected) = 3
    /\ LET tb == reallocate_token_budget_for_response(token_budget)
       IN  /\ token_budget' = tb
           /\ attitude_token_budget' = tb.attitude_data
           /\ response_token_budget' = tb.response_buffer
           /\ last' = [ op |-> "crisis", ret |-> CrisisReturn(3),
                        strategy |-> 3, pre |-> token_budget ]
    /\ UNCHANGED <<config, usage_monitor, hybrid_context_allocation,
                   system_token_budget, message_token_budget, notCtx>>

\* reset_usage_monitor()
ResetUsageMonitor ==
    /\ usage_monitor' = NewMonitor(token_budget)
    /\ last' = [ op |-> "reset", ret |-> FALSE, strategy |-> 0, pre |-> token_budget ]
    /\ UNCHANGED <<config, token_budget, hybrid_context_allocation,
                   system_token_budget, attitude_token_budget, message_token_budget,
                   response_token_budget, notCtx>>

\* The parts of the state a specification does not use stay empty
CtxIdle ==
    /\ config = <<>> /\ token_budget = <<>> /\ usage_monitor = <<>>
    /\ hybrid_context_allocation = <<>>
    /\ system_token_budget = 0 /\ attitude_token_budget = 0
    /\ message_token_budget = 0 /\ response_token_budget = 0
    /\ last = <<>>

BudgetIdle == budget_args = <<>> /\ budget_result = <<>>
MemoryIdle == memory_args = <<>> /\ memory_result = <<>>
HybridIdle == hybrid_args = <<>> /\ hybrid_result = <<>>

FnIdle == BudgetIdle /\ MemoryIdle /\ HybridIdle

GpuIdle ==
    /\ allocator = <<>> /\ gpu_info = <<>> /\ model = <<>>
    /\ allocation = <<>> /\ alloc_call = <<>>
    /\ prev_allocation = <<>> /\ prev_call = <<>>
    /\ suggestion = <<>> /\ monitor_call = <<>>

MonIdle == monitor = <<>> /\ opt_call = <<>> /\ statistics = <<>>

MsgIdle == manage_call = <<>> /\ context = <<>> /\ overflow_call = <<>>

SessIdle == sessions = <<>> /\ utc_now = <<>> /\ next_uuid = <<>> /\ database = <<>> /\ session_pc = <<>> /\ session_local = <<>> /\ session_ret = <<>> /\ ended = <<>>

CacheIdle == prompt_cache = <<>> /\ stats = <<>> /\ cache_lock = <<>> /\ stats_lock = <<>> /\ pc = <<>> /\ local = <<>> /\ ret = <<>> /\ now = <<>>

Init ==
    /\ \E cfg \in Configs, detected \in DetectResults : New(cfg, detected)
    /\ FnIdle /\ GpuIdle /\ MonIdle
    /\ MsgIdle /\ CacheIdle /\ SessIdle

Next ==
    \/ \E crb \in ResponseBudgets, detected \in DetectResults : CrisisNone(crb, detected)
    \/ \E crb \in ResponseBudgets, detected \in DetectResults : CrisisExpandWindow(crb, detected)
    \/ \E crb \in ResponseBudgets, detected \in DetectResults : CrisisExpandRam(crb, detected)
    \/ \E crb \in ResponseBudgets, detected \in DetectResults : CrisisReallocate(crb, detected)
    \/ ResetUsageMonitor

Spec == Init /\ [][Next]_vars

-----------------------------------------------------------------------------
(* Claims about the ContextManager, checked under Spec *)

\* C2: in every reachable state of a ContextManager the five categories of
\* token_budget sum to at most token_budget.total.
C2_BudgetWithinTotal == BudgetSum(token_budget) <= token_budget.total

\* C2 witness: a crisis call took strategy 3 and moved tokens between categories.
C2_Witness ==
    /\ last.op = "crisis" /\ last.strategy = 3
    /\ token_budget.response_buffer > last.pre.response_buffer
    /\ token_budget.attitude_data < last.pre.attitude_data

\* C3 as stated: with hybrid context disabled, a crisis call (response budget
\* below 100) strictly increases response_buffer unless attitude_data and
\* third_party_info were both 0 before the call.
C3_Original ==
    ( /\ last.op = "crisis" /\ last.strategy # 0
      /\ ~config.enable_hybrid_context
      /\ ~(last.pre.attitude_data = 0 /\ last.pre.third_party_info = 0) )
    => token_budget.response_buffer > last.pre.response_buffer

\* C3 amended: with hybrid context disabled, a crisis call strictly increases
\* response_buffer unless attitude_data was below 4 and third_party_info below 2
\* before the call (the truncated 25% and 50% reductions are then both 0), and
\* in that case it leaves response_buffer as it was.
C3_IncreasesAboveFloor ==
    ( /\ last.op = "crisis" /\ last.strategy # 0
      /\ ~config.enable_hybrid_context )
    => IF last.pre.attitude_data < 4 /\ last.pre.third_party_info < 2
       THEN token_budget.response_buffer = last.pre.response_buffer
       ELSE token_budget.response_buffer > last.pre.response_buffer

\* C3 witness: hybrid disabled, a crisis call from a budget above the floor.
C3_Witness ==
    /\ last.op = "crisis" /\ last.strategy = 3
    /\ ~config.enable_hybrid_context
    /\ last.pre.attitude_data >= 4
    /\ token_budget.response_buffer > last.pre.response_buffer

\* C4 as stated: handle_response_budget_crisis returns true exactly when the
\* call modified token_budget, and false when token_budget is the same after the
\* call as before.
C4_Original ==
    last.op = "crisis" => (last.ret <=> (token_budget # last.pre))

\* C5 as stated: whenever a HybridContextAllocation is active, token_budget.total
\* equals that allocation's total_context_tokens.
C5_Original ==
    hybrid_context_allocation # <<>>
    => token_budget.total = hybrid_context_allocation[1].total_context_tokens

\* C6: every HybridContextAllocation held by a ContextManager has
\* vram_context_tokens + system_ram_context_tokens = total_context_tokens and
\* total_context_tokens <= config.context_window_size.
C6_HybridPartsSum ==
    hybrid_context_allocation # <<>>
    => LET h == hybrid_context_allocation[1]
       IN  /\ h.vram_context_tokens + h.system_ram_context_tokens = h.total_context_tokens
           /\ h.total_context_tokens <= config.context_window_size

\* C6 witness: crisis strategy 2 grew the RAM part up to the configured ceiling.
C6_Witness ==
    /\ last.op = "crisis" /\ last.strategy = 2
    /\ hybrid_context_allocation # <<>>
    /\ hybrid_context_allocation[1].system_ram_context_tokens > 0
    /\ hybrid_context_allocation[1].total_context_tokens = config.context_window_size
    /\ hybrid_context_allocation[1].vram_context_tokens < config.context_window_size

-----------------------------------------------------------------------------
(* TokenBudget::from_vram_limit as a function: SpecBudget *)

\* max_configured arguments: below, at and above each tier's base size
Ceilings == {0, 1, 7, 40, 999, 1024, 2048, 2049, 3000, 3072, 4096, 8192}

BudgetInit ==
    /\ \E v \in 0..MaxVramGb, c \in Ceilings :
            budget_args = << [ vram_gb |-> v, max_configured |-> c ] >>
    /\ budget_result = <<>>
    /\ MemoryIdle /\ HybridIdle
    /\ CtxIdle /\ GpuIdle /\ MonIdle
    /\ MsgIdle /\ CacheIdle /\ SessIdle

\* let budget = TokenBudget::from_vram_limit(vram_gb, max_configured)
CallFromVramLimit ==
    /\ budget_result = <<>>
    /\ budget_result' = << from_vram_limit(budget_args[1].vram_gb, budget_args[1].max_configured) >>
    /\ UNCHANGED <<budget_args, memory_args, memory_result, hybrid_args, hybrid_result, notFn>>

\* the same call with other arguments
NextBudgetArgs ==
    /\ budget_result # <<>>
    /\ \E v \in 0..MaxVramGb, c \in Ceilings :
            budget_args' = << [ vram_gb |-> v, max_configured |-> c ] >>
    /\ budget_result' = <<>>
    /\ UNCHANGED <<memory_args, memory_result, hybrid_args, hybrid_result, notFn>>

BudgetNext == CallFromVramLimit \/ NextBudgetArgs

SpecBudget == BudgetInit /\ [][BudgetNext]_vars

\* n is the truncated pct% of total
IsTruncatedPercent(n, pct, total) ==
    n * 100 <= pct * total /\ pct * total < (n + 1) * 100

\* C7: from_vram_limit(vram_gb, ceiling) yields Minimal/1024 for 0..2 GB,
\* Standard/2048 for 3..4 GB, Extended/3072 for 5..6 GB and Maximum/4096 above,
\* total = min(base, ceiling), and the five categories are the truncated
\* 15/20/10/40/15% of that total; (4, 4096) gives 2048 and 307/409/204/819/307,
\* (2, 4096) gives 1024, Minimal.
C7_FromVramLimit ==
    budget_result # <<>> =>
    LET v == budget_args[1].vram_gb
        c == budget_args[1].max_configured
        b == budget_result[1]
        base == CASE v \in 0..2 -> 1024 [] v \in 3..4 -> 2048 [] v \in 5..6 -> 3072 [] OTHER -> 4096
        tier == CASE v \in 0..2 -> "Minimal" [] v \in 3..4 -> "Standard"
                  [] v \in 5..6 -> "Extended" [] OTHER -> "Maximum"
    IN  /\ b.vram_tier = tier
        /\ b.total <= base /\ b.total <= c /\ b.total \in {base, c}
        /\ IsTruncatedPercent(b.system_prompt, 15, b.total)
        /\ IsTruncatedPercent(b.attitude_data, 20, b.total)
        /\ IsTruncatedPercent(b.third_party_info, 10, b.total)
        /\ IsTruncatedPercent(b.recent_messages, 40, b.total)
        /\ IsTruncatedPercent(b.response_buffer, 15, b.total)
        /\ (v = 4 /\ c = 4096) =>
              /\ b.total = 2048
              /\ <<b.system_prompt, b.attitude_data, b.third_party_info,
                   b.recent_messages, b.response_buffer>> = <<307, 409, 204, 819, 307>>
        /\ (v = 2 /\ c = 4096) => (b.total = 1024 /\ b.vram_tier = "Minimal")

\* C7 witness: from_vram_limit(4, 4096) has returned the Standard budget.
C7_Witness ==
    /\ budget_result # <<>>
    /\ budget_args[1] = [ vram_gb |-> 4, max_configured |-> 4096 ]
    /\ budget_result[1].total = 2048
    /\ budget_result[1].vram_tier = "Standard"

-----------------------------------------------------------------------------
(* gpu_allocator.rs: GpuAllocator *)

\* Stand-in for u64::MAX, the value an infinite f32 casts to
U64Max == 2147483647

CeilDiv(a, b) == (a + b - 1) \div b

\* GpuAllocator::new().with_safety_margin(m).with_min_free_vram(f); margins in percent
with_safety_margin(margin_percent) == Max(10, Min(100, margin_percent))

NewAllocator(margin_percent, min_vram_mb) ==
    [ safety_margin_percent |-> with_safety_margin(margin_percent),
      min_free_vram_mb |-> min_vram_mb ]

\* Mutant of effective_available_vram: the limit is taken off what is available
effective_available_vram_Remainder(info, vram_limit_gb) ==
    IF vram_limit_gb # <<>>
    THEN SatSub(info.available_vram_mb, vram_limit_gb[1] * 1024)
    ELSE info.available_vram_mb

\* "Apply VRAM limit if specified": vram_limit_gb is <<>> (None) or <<gb>> (Some)
effective_available_vram(info, vram_limit_gb) ==
    IF vram_limit_gb # <<>>
    THEN Min(info.available_vram_mb, vram_limit_gb[1] * 1024)
    ELSE info.available_vram_mb

\* v2's f32 estimate ceil(size / bpp / layers * bpp / 1024 / 1024) as u64.  The
\* quantization's bytes-per-parameter cancels; 0/x and the NaN of 0/0 cast to
\* 0, the infinity of x/0 casts to u64::MAX.
vram_per_layer_mb_v2(model_size_mb, total_layers) ==
    IF model_size_mb = 0 THEN 0
    ELSE IF total_layers = 0 THEN U64Max
    ELSE CeilDiv(model_size_mb, total_layers * 1048576)

\* "Calculate maximum layers that fit in VRAM"
max_gpu_layers_of(budget_mb, vram_per_layer_mb, total_layers) ==
    IF vram_per_layer_mb > 0 /\ budget_mb > 0
    THEN Min(budget_mb \div vram_per_layer_mb, total_layers)
    ELSE 0

calculate_optimal_layers_v2(alloc, info, model_size_mb, total_layers, vram_limit_gb) ==
    LET effective == effective_available_vram(info, vram_limit_gb)
        tier == IF info.total_vram_mb >= 3500 THEN <<90, 256>>
                ELSE IF info.total_vram_mb >= 2048 THEN <<85, 384>>
                ELSE <<alloc.safety_margin_percent, alloc.min_free_vram_mb>>
        safe_vram_mb == MulTrunc(effective, tier[1], 100)
        usable_vram_mb == SatSub(safe_vram_mb, tier[2])
        vram_per_layer_mb == vram_per_layer_mb_v2(model_size_mb, total_layers)
        reserved_vram == 200 + 100
        layers_vram_budget == SatSub(usable_vram_mb, reserved_vram)
        max_gpu_layers == max_gpu_layers_of(layers_vram_budget, vram_per_layer_mb, total_layers)
        chosen ==
            IF max_gpu_layers = 0 THEN <<0, "CpuFallback">>
            ELSE IF max_gpu_layers >= total_layers THEN <<total_layers, "MaxGpu">>
            ELSE IF /\ info.total_vram_mb >= 3500
                    /\ max_gpu_layers >= MulTrunc(total_layers, 80, 100)
                 THEN <<max_gpu_layers, "Aggressive">>
            ELSE IF max_gpu_layers >= total_layers \div 2 THEN <<max_gpu_layers, "Balanced">>
            ELSE <<max_gpu_layers, "Conservative">>
    IN  [ gpu_layers |-> chosen[1],
          cpu_layers |-> SatSub(total_layers, chosen[1]),
          total_layers |-> total_layers,
          estimated_vram_usage_mb |-> chosen[1] * vram_per_layer_mb + reserved_vram,
          allocation_strategy |-> chosen[2] ]

\* Mutant of calculate_optimal_layers: the legacy method has the Aggressive class too
calculate_optimal_layers_WithAggressive(alloc, info, model_size_mb, total_layers, vram_limit_gb) ==
    LET effective == effective_available_vram(info, vram_limit_gb)
        safe_vram_mb == MulTrunc(effective, alloc.safety_margin_percent, 100)
        usable_vram_mb == SatSub(safe_vram_mb, alloc.min_free_vram_mb)
        vram_per_layer_mb == IF total_layers > 0 THEN model_size_mb \div total_layers
                             ELSE model_size_mb
        max_gpu_layers == max_gpu_layers_of(usable_vram_mb, vram_per_layer_mb, total_layers)
        chosen ==
            IF max_gpu_layers = 0 THEN <<0, "CpuFallback">>
            ELSE IF max_gpu_layers >= total_layers THEN <<total_layers, "MaxGpu">>
            ELSE IF /\ info.total_vram_mb >= 3500
                    /\ max_gpu_layers >= MulTrunc(total_layers, 80, 100)
                 THEN <<max_gpu_layers, "Aggressive">>
            ELSE IF max_gpu_layers >= total_layers \div 2 THEN <<max_gpu_layers, "Balanced">>
            ELSE <<max_gpu_layers, "Conservative">>
    IN  [ gpu_layers |-> chosen[1],
          cpu_layers |-> SatSub(total_layers, chosen[1]),
          total_layers |-> total_layers,
          estimated_vram_usage_mb |-> chosen[1] * vram_per_layer_mb,
          allocation_strategy |-> chosen[2] ]

calculate_optimal_layers(alloc, info, model_size_mb, total_layers, vram_limit_gb) ==
    LET effective == effective_available_vram(info, vram_limit_gb)
        safe_vram_mb == MulTrunc(effective, alloc.safety_margin_percent, 100)
        usable_vram_mb == SatSub(safe_vram_mb, alloc.min_free_vram_mb)
        vram_per_layer_mb == IF total_layers > 0 THEN model_size_mb \div total_layers
                             ELSE model_size_mb
        max_gpu_layers == max_gpu_layers_of(usable_vram_mb, vram_per_layer_mb, total_layers)
        chosen ==
            IF max_gpu_layers = 0 THEN <<0, "CpuFallback">>
            ELSE IF max_gpu_layers >= total_layers THEN <<total_layers, "MaxGpu">>
            ELSE IF max_gpu_layers >= total_layers \div 2 THEN <<max_gpu_layers, "Balanced">>
            ELSE <<max_gpu_layers, "Conservative">>
    IN  [ gpu_layers |-> chosen[1],
          cpu_layers |-> SatSub(total_layers, chosen[1]),
          total_layers |-> total_layers,
          estimated_vram_usage_mb |-> chosen[1] * vram_per_layer_mb,
          allocation_strategy |-> chosen[2] ]

\* Mutant of Suggested: the CPU share is carried over from the current allocation
Suggested_KeepsCpuLayers(current, new_gpu_layers, strategy) ==
    [ gpu_layers |-> new_gpu_layers,
      cpu_layers |-> current.cpu_layers,
      total_layers |-> current.total_layers,
      estimated_vram_usage_mb |->
          new_gpu_layers * (current.estimated_vram_usage_mb \div Max(current.gpu_layers, 1)),
      allocation_strategy |-> strategy ]

\* The LayerAllocation a suggestion is built as
Suggested(current, new_gpu_layers, strategy) ==
    [ gpu_layers |-> new_gpu_layers,
      cpu_layers |-> SatSub(current.total_layers, new_gpu_layers),
      total_layers |-> current.total_layers,
      estimated_vram_usage_mb |->
          new_gpu_layers * (current.estimated_vram_usage_mb \div Max(current.gpu_layers, 1)),
      allocation_strategy |-> strategy ]

\* Mutant of monitor_and_suggest_reallocation: under pressure the suggestion
\* keeps every GPU layer
monitor_and_suggest_reallocation_NoReduction(current, live) ==
    LET memory_pressure == live.utilization_percent
        ratio_below_10 == live.total_vram_mb > 0
                          /\ live.available_vram_mb * 10 < live.total_vram_mb
        ratio_above_30 == live.total_vram_mb > 0
                          /\ live.available_vram_mb * 10 > live.total_vram_mb * 3
    IN  IF memory_pressure > 90 \/ ratio_below_10
        THEN IF current.gpu_layers > 0
             THEN << Suggested(current, current.gpu_layers, "Conservative") >>
             ELSE <<>>
        ELSE IF memory_pressure < 50 /\ ratio_above_30
        THEN IF current.cpu_layers > 0
             THEN LET additional_layers == MulTrunc(current.total_layers, 10, 100)
                      new_gpu_layers == Min(current.gpu_layers + additional_layers,
                                            current.total_layers)
                  IN  << Suggested(current, new_gpu_layers,
                                   IF new_gpu_layers = current.total_layers
                                   THEN "MaxGpu" ELSE "Balanced") >>
             ELSE <<>>
        ELSE <<>>

\* Mutant of monitor_and_suggest_reallocation: with headroom the suggestion
\* adds a tenth of the GPU layers, not of all layers
monitor_and_suggest_reallocation_TenthOfGpu(current, live) ==
    LET memory_pressure == live.utilization_percent
        ratio_below_10 == live.total_vram_mb > 0
                          /\ live.available_vram_mb * 10 < live.total_vram_mb
        ratio_above_30 == live.total_vram_mb > 0
                          /\ live.available_vram_mb * 10 > live.total_vram_mb * 3
    IN  IF memory_pressure > 90 \/ ratio_below_10
        THEN IF current.gpu_layers > 0
             THEN << Suggested(current, MulTrunc(current.gpu_layers, 80, 100), "Conservative") >>
             ELSE <<>>
        ELSE IF memory_pressure < 50 /\ ratio_above_30
        THEN IF current.cpu_layers > 0
             THEN LET additional_layers == MulTrunc(current.gpu_layers, 10, 100)
                      new_gpu_layers == Min(current.gpu_layers + additional_layers,
                                            current.total_layers)
                  IN  << Suggested(current, new_gpu_layers,
                                   IF new_gpu_layers = current.total_layers
                                   THEN "MaxGpu" ELSE "Balanced") >>
             ELSE <<>>
        ELSE <<>>

\* Option<LayerAllocation>.  available_ratio is available / total in f32: with
\* total = 0 it is NaN and both comparisons are false.
monitor_and_suggest_reallocation(current, live) ==
    LET memory_pressure == live.utilization_percent
        ratio_below_10 == live.total_vram_mb > 0
                          /\ live.available_vram_mb * 10 < live.total_vram_mb
        ratio_above_30 == live.total_vram_mb > 0
                          /\ live.available_vram_mb * 10 > live.total_vram_mb * 3
    IN  IF memory_pressure > 90 \/ ratio_below_10
        THEN IF current.gpu_layers > 0
             THEN << Suggested(current, MulTrunc(current.gpu_layers, 80, 100), "Conservative") >>
             ELSE <<>>
        ELSE IF memory_pressure < 50 /\ ratio_above_30
        THEN IF current.cpu_layers > 0
             THEN LET additional_layers == MulTrunc(current.total_layers, 10, 100)
                      new_gpu_layers == Min(current.gpu_layers + additional_layers,
                                            current.total_layers)
                  IN  << Suggested(current, new_gpu_layers,
                                   IF new_gpu_layers = current.total_layers
                                   THEN "MaxGpu" ELSE "Balanced") >>
             ELSE <<>>
        ELSE <<>>

\* llm.rs: a configured limit of 0 GB means no limit
ConfiguredLimit(vram_limit_gb) ==
    IF vram_limit_gb > 0 THEN <<vram_limit_gb>> ELSE <<>>

(* GpuAllocator as a state machine: SpecGpu *)

\* (gpu_safety_margin in percent, min_free_vram_mb) of the configuration
AllocatorConfigs == { <<80, 512>>, <<70, 256>>, <<150, 0>>, <<5, 512>> }

\* total, available, used MB and utilisation %: the CPU device, the fallback
\* estimate, the Metal estimate, and nvidia-smi readings (utilization.gpu is
\* the compute load and does not follow the memory figures)
GpuSnapshots ==
    { [ total_vram_mb |-> 0,    available_vram_mb |-> 0,    used_vram_mb |-> 0,    utilization_percent |-> 0 ],
      [ total_vram_mb |-> 4096, available_vram_mb |-> 2457, used_vram_mb |-> 1638, utilization_percent |-> 40 ],
      [ total_vram_mb |-> 8192, available_vram_mb |-> 5734, used_vram_mb |-> 2457, utilization_percent |-> 30 ],
      [ total_vram_mb |-> 2048, available_vram_mb |-> 1800, used_vram_mb |-> 248,  utilization_percent |-> 60 ],
      [ total_vram_mb |-> 8192, available_vram_mb |-> 512,  used_vram_mb |-> 7680, utilization_percent |-> 95 ],
      [ total_vram_mb |-> 8192, available_vram_mb |-> 646,  used_vram_mb |-> 7546, utilization_percent |-> 60 ],
      [ total_vram_mb |-> 8192, available_vram_mb |-> 6144, used_vram_mb |-> 2048, utilization_percent |-> 25 ] }

\* the readings the monitor is given later: the same ones, and a busy GPU with
\* plenty of memory free
LiveSnapshots ==
    GpuSnapshots \cup
    { [ total_vram_mb |-> 4096, available_vram_mb |-> 2457, used_vram_mb |-> 1638, utilization_percent |-> 92 ] }

\* (model_size_mb, total_layers); llm.rs estimates 4096 MB in 32 layers
Models == { <<4096, 32>>, <<13000, 40>>, <<4096, 9>>, <<0, 32>>, <<4096, 0>>, <<0, 0>> }

GpuInit ==
    /\ \E a \in AllocatorConfigs : allocator = NewAllocator(a[1], a[2])
    /\ gpu_info \in GpuSnapshots
    /\ \E m \in Models : model = [ model_size_mb |-> m[1], total_layers |-> m[2] ]
    /\ allocation = <<>> /\ alloc_call = <<>>
    /\ prev_allocation = <<>> /\ prev_call = <<>>
    /\ suggestion = <<>> /\ monitor_call = <<>>
    /\ CtxIdle /\ FnIdle /\ MonIdle
    /\ MsgIdle /\ CacheIdle /\ SessIdle

\* A computed allocation replaces the last one, which is kept for comparison
Computed(fn, vram_limit_gb, result) ==
    /\ allocation' = << result >>
    /\ alloc_call' = << [ fn |-> fn, vram_limit_gb |-> vram_limit_gb ] >>
    /\ prev_allocation' = allocation
    /\ prev_call' = alloc_call
    /\ suggestion' = <<>> /\ monitor_call' = <<>>
    /\ UNCHANGED <<allocator, gpu_info, model, notGpu>>

\* allocator.calculate_optimal_layers(&gpu_info, size, layers, vram_limit)
CalculateLayers(vram_limit_gb) ==
    /\ vram_limit_gb \in Nat
    /\ Computed("calculate_optimal_layers", vram_limit_gb,
                calculate_optimal_layers(allocator, gpu_info, model.model_size_mb,
                                         model.total_layers, ConfiguredLimit(vram_limit_gb)))

\* allocator.calculate_optimal_layers_v2(&gpu_info, path, size, layers, vram_limit)
CalculateLayersV2(vram_limit_gb) ==
    /\ vram_limit_gb \in Nat
    /\ Computed("calculate_optimal_layers_v2", vram_limit_gb,
                calculate_optimal_layers_v2(allocator, gpu_info, model.model_size_mb,
                                            model.total_layers, ConfiguredLimit(vram_limit_gb)))

\* allocator.monitor_and_suggest_reallocation(&allocation, &live)
SuggestReallocation(live) ==
    /\ allocation # <<>>
    /\ suggestion' = monitor_and_suggest_reallocation(allocation[1], live)
    /\ monitor_call' = << [ current |-> allocation[1], live |-> live ] >>
    /\ prev_allocation' = <<>> /\ prev_call' = <<>>
    /\ UNCHANGED <<allocator, gpu_info, model, allocation, alloc_call, notGpu>>

GpuNext ==
    \/ \E l \in 0..MaxLimitGb : CalculateLayers(l)
    \/ \E l \in 0..MaxLimitGb : CalculateLayersV2(l)
    \/ \E live \in LiveSnapshots : SuggestReallocation(live)

SpecGpu == GpuInit /\ [][GpuNext]_vars

LayersAddUp(a) ==
    a.gpu_layers + a.cpu_layers = a.total_layers /\ a.gpu_layers <= a.total_layers

\* C1: every LayerAllocation returned by calculate_optimal_layers and by
\* calculate_optimal_layers_v2 has gpu_layers + cpu_layers = total_layers and
\* gpu_layers <= total_layers, and so has every suggestion that
\* monitor_and_suggest_reallocation returns from an allocation that has.
C1_LayersAddUp ==
    /\ allocation # <<>> =>
          LayersAddUp(allocation[1]) /\ allocation[1].total_layers = model.total_layers
    /\ (monitor_call # <<>> /\ suggestion # <<>> /\ LayersAddUp(monitor_call[1].current)) =>
          LayersAddUp(suggestion[1])

\* C1 witness: a split allocation has been computed and a suggestion made from it.
C1_Witness ==
    /\ allocation # <<>> /\ suggestion # <<>>
    /\ allocation[1].gpu_layers > 0 /\ allocation[1].cpu_layers > 0
    /\ suggestion[1].gpu_layers # allocation[1].gpu_layers

SameComputation == allocation # <<>> /\ prev_allocation # <<>> /\ alloc_call[1].fn = prev_call[1].fn

\* C8 as stated: for configured limits L1 <= L2 (0 included, which the caller
\* passes on as "no limit"), gpu_layers(L1) <= gpu_layers(L2).
C8_Original ==
    (SameComputation /\ prev_call[1].vram_limit_gb <= alloc_call[1].vram_limit_gb) =>
        prev_allocation[1].gpu_layers <= allocation[1].gpu_layers

\* C8: for a fixed snapshot, model and allocator, gpu_layers never decreases
\* when the configured limit grows from a positive L1 to a positive L2 >= L1, or
\* changes to 0, which stands for no limit and so is the largest setting.
C8_MonotoneInLimit ==
    (/\ SameComputation
     /\ \/ alloc_call[1].vram_limit_gb = 0
        \/ /\ 0 < prev_call[1].vram_limit_gb
           /\ prev_call[1].vram_limit_gb <= alloc_call[1].vram_limit_gb) =>
        prev_allocation[1].gpu_layers <= allocation[1].gpu_layers

\* C8 witness: raising the limit from a positive value to "no limit" gave more layers.
C8_Witness ==
    /\ SameComputation
    /\ prev_call[1].vram_limit_gb = 1 /\ alloc_call[1].vram_limit_gb = 0
    /\ prev_allocation[1].gpu_layers < allocation[1].gpu_layers

-----------------------------------------------------------------------------
(* token_budget.rs: TokenUsageMonitor *)
(* A text is measured by what estimate_tokens reads of it: its length in   *)
(* bytes and its number of whitespace-separated words.  Formatted texts    *)
(* are measured from their format strings; names and free-text fields of   *)
(* the data below hold no whitespace.  Message contents are sequences of   *)
(* characters, because compress_message cuts and trims them.               *)

Abs(x) == IF x < 0 THEN -x ELSE x

RECURSIVE DecDigits(_)
DecDigits(n) == IF n < 10 THEN 1 ELSE 1 + DecDigits(n \div 10)

\* length of format!("{:.0}", v) for a whole-numbered v
DecLen(v) == IF v < 0 THEN 1 + DecDigits(-v) ELSE DecDigits(v)

EmptyText == [ chars |-> 0, words |-> 0 ]

\* number of maximal runs of non-blank characters: text.split_whitespace().count()
WordCount(content) ==
    Cardinality({ i \in 1..Len(content) :
                    content[i] # " " /\ (i = 1 \/ content[i - 1] = " ") })

TextOf(content) == [ chars |-> Len(content), words |-> WordCount(content) ]

estimate_tokens(text) ==
    IF text.chars = 0 THEN 0
    ELSE Max(Max(MulTrunc(text.words, 13, 10), text.chars \div 4), 1)

\* ---- attitudes.  A CompanionAttitude with trust, joy and curiosity; its other
\* dimensions are 0.0, as in create_test_attitude.  relationship_score is <<>>
\* or <<score>>.

\* the dimensions that can be non-zero, in the order of dimension_map
Dimensions(attitude) ==
    << <<"trust", attitude.trust>>, <<"joy", attitude.joy>>,
       <<"curiosity", attitude.curiosity>> >>

\* calculate_attitude_significance, times 10:
\* total_intensity * 0.3 + max_dimension * 0.6 + |relationship_score| * 0.1
calculate_attitude_significance(attitude) ==
    LET t == Abs(attitude.trust)
        j == Abs(attitude.joy)
        c == Abs(attitude.curiosity)
        relationship == IF attitude.relationship_score = <<>> THEN 0
                        ELSE Abs(attitude.relationship_score[1])
    IN  3 * (t + j + c) + 6 * Max(t, Max(j, c)) + relationship

\* attitude_threshold of the tier, times 10
AttitudeThreshold(vram_tier) ==
    CASE vram_tier = "Minimal"  -> 300
      [] vram_tier = "Standard" -> 200
      [] vram_tier = "Extended" -> 150
      [] vram_tier = "Maximum"  -> 100

RECURSIVE JoinedChars(_, _, _)
\* length of the dimensions formatted as name, sep, value and joined with ", "
JoinedChars(dims, sep, i) ==
    IF i > Len(dims) THEN 0
    ELSE Len(dims[i][1]) + sep + DecLen(dims[i][2])
         + (IF i < Len(dims) THEN Len(", ") ELSE 0)
         + JoinedChars(dims, sep, i + 1)

get_significant_dimensions(attitude) ==
    SelectSeq(Dimensions(attitude), LAMBDA d : Abs(d[2]) >= 15)

\* "Attitude towards {}: {}{}" with "name: value" dimensions
format_attitude_for_context(attitude) ==
    LET significant_dimensions == get_significant_dimensions(attitude)
        scored == attitude.relationship_score # <<>>
    IN  IF significant_dimensions = <<>> THEN EmptyText
        ELSE [ chars |-> Len("Attitude towards ") + Len(attitude.target_type) + Len(": ")
                         + JoinedChars(significant_dimensions, Len(": "), 1)
                         + (IF scored
                            THEN Len(" (relationship: ")
                                 + DecLen(attitude.relationship_score[1]) + Len(")")
                            ELSE 0),
               words |-> 3 + 2 * Len(significant_dimensions) + (IF scored THEN 2 ELSE 0) ]

\* get_top_dimensions(attitude, 3): the three largest of seven dimensions, of
\* which those of magnitude 10 or more are kept; the four dimensions not
\* modelled are 0.0 and never kept
get_top_dimensions(attitude) ==
    SelectSeq(Dimensions(attitude), LAMBDA d : Abs(d[2]) >= 10)

\* "#{}: {}" with "name:value" dimensions
compress_attitude(attitude) ==
    LET top_dimensions == get_top_dimensions(attitude)
    IN  [ chars |-> Len("#") + Len(attitude.target_type) + Len(": ")
                    + JoinedChars(top_dimensions, Len(":"), 1),
          words |-> 1 + Len(top_dimensions) ]

RECURSIVE InsertByScore(_, _, _)
\* the scored item x placed behind every one whose score is not smaller (a
\* stable sort step); a scored item is <<score, item>>
InsertByScore(sorted, x, i) ==
    IF i > Len(sorted) THEN Append(sorted, x)
    ELSE IF sorted[i][1] < x[1]
         THEN SubSeq(sorted, 1, i - 1) \o <<x>> \o SubSeq(sorted, i, Len(sorted))
         ELSE InsertByScore(sorted, x, i + 1)

RECURSIVE SortScored(_, _)
SortScored(scored, n) ==
    IF n = 0 THEN <<>>
    ELSE InsertByScore(SortScored(scored, n - 1), scored[n], 1)

\* items.sort_by(|a, b| score(b).partial_cmp(&score(a))): stable, descending;
\* scores[i] is the score of items[i]
SortByScoreDesc(items, scores) ==
    LET scored == [ i \in 1..Len(items) |-> <<scores[i], items[i]>> ]
        sorted == SortScored(scored, Len(items))
    IN  [ i \in 1..Len(items) |-> sorted[i][2] ]

\* one turn of the loop of optimize_attitude_context
AttitudeStep(budget, acc, attitude) ==
    IF calculate_attitude_significance(attitude) < AttitudeThreshold(budget.vram_tier)
    THEN [ acc EXCEPT !.filtered = @ + 1 ]
    ELSE LET attitude_tokens == estimate_tokens(format_attitude_for_context(attitude))
             compressed_tokens == estimate_tokens(compress_attitude(attitude))
         IN  IF acc.tokens + attitude_tokens <= budget.attitude_data
             THEN [ acc EXCEPT !.kept = Append(@, attitude), !.tokens = @ + attitude_tokens ]
             ELSE IF /\ acc.tokens + (attitude_tokens \div 2) <= budget.attitude_data
                     /\ acc.tokens + compressed_tokens <= budget.attitude_data
                  THEN [ acc EXCEPT !.kept = Append(@, attitude),
                                    !.tokens = @ + compressed_tokens,
                                    !.filtered = @ + 1 ]
                  ELSE [ acc EXCEPT !.filtered = @ + 1 ]

RECURSIVE AttitudeLoop(_, _, _, _)
AttitudeLoop(budget, sorted, i, acc) ==
    IF i > Len(sorted) THEN acc
    ELSE AttitudeLoop(budget, sorted, i + 1, AttitudeStep(budget, acc, sorted[i]))

\* returns the monitor after the call and the attitudes returned
optimize_attitude_context(mon, attitudes) ==
    LET sorted_attitudes ==
            SortByScoreDesc(attitudes,
                [ i \in 1..Len(attitudes) |-> calculate_attitude_significance(attitudes[i]) ])
        done == AttitudeLoop(mon.budget, sorted_attitudes, 1,
                             [ kept |-> <<>>, tokens |-> 0, filtered |-> 0 ])
    IN  [ monitor |-> [ mon EXCEPT !.current_usage.attitude_tokens = done.tokens,
                                   !.optimization_stats.attitudes_filtered = @ + done.filtered ],
          returned |-> done.kept ]

\* ---- third parties.  importance_score in tenths; the optional fields are
\* <<>> or <<string>>.

\* ln(mention_count) in thousandths, for the counts of the data below
LnThousandths(n) ==
    CASE n <= 1 -> 0
      [] n = 2  -> 693
      [] n = 3  -> 1099
      [] n = 8  -> 2079
      [] n = 15 -> 2708

\* importance_score * ln(mention_count).max(1.0), times 10000
ThirdPartyScore(party) ==
    party.importance_score * Max(LnThousandths(party.mention_count), 1000)

RECURSIVE SeqSum(_, _)
SeqSum(numbers, n) == IF n = 0 THEN 0 ELSE numbers[n] + SeqSum(numbers, n - 1)

\* "{} (mentioned {} times)" around name, rel:, job: and traits: joined with ", "
format_third_party_for_context(party) ==
    LET details ==
            <<Len(party.name)>>
            \o (IF party.relationship_to_user # <<>>
                THEN << Len("rel:") + Len(party.relationship_to_user[1]) >> ELSE <<>>)
            \o (IF party.occupation # <<>>
                THEN << Len("job:") + Len(party.occupation[1]) >> ELSE <<>>)
            \o (IF party.personality_traits # <<>>
                THEN << Len("traits:")
                        + (IF Len(party.personality_traits[1]) > 30
                           THEN 30 + Len("...")
                           ELSE Len(party.personality_traits[1])) >>
                ELSE <<>>)
        joined == SeqSum(details, Len(details)) + Len(", ") * (Len(details) - 1)
    IN  [ chars |-> joined + Len(" (mentioned ") + DecLen(party.mention_count)
                    + Len(" times)"),
          words |-> Len(details) + 3 ]

RECURSIVE ThirdPartyLoop(_, _, _, _)
ThirdPartyLoop(budget, sorted, i, acc) ==
    IF i > Len(sorted) THEN acc
    ELSE LET party_tokens == estimate_tokens(format_third_party_for_context(sorted[i]))
         IN  ThirdPartyLoop(budget, sorted, i + 1,
                IF acc.tokens + party_tokens <= budget.third_party_info
                THEN [ acc EXCEPT !.kept = Append(@, sorted[i]), !.tokens = @ + party_tokens ]
                ELSE [ acc EXCEPT !.filtered = @ + 1 ])

optimize_third_party_context(mon, third_parties) ==
    LET sorted_parties ==
            SortByScoreDesc(third_parties,
                [ i \in 1..Len(third_parties) |-> ThirdPartyScore(third_parties[i]) ])
        done == ThirdPartyLoop(mon.budget, sorted_parties, 1,
                               [ kept |-> <<>>, tokens |-> 0, filtered |-> 0 ])
    IN  [ monitor |-> [ mon EXCEPT !.current_usage.third_party_tokens = done.tokens,
                                   !.optimization_stats.third_parties_filtered = @ + done.filtered ],
          returned |-> done.kept ]

\* ---- messages.  content is a sequence of characters.

\* str::trim for blanks
Trim(content) ==
    LET inked == { i \in 1..Len(content) : content[i] # " " }
    IN  IF inked = {} THEN <<>>
        ELSE SubSeq(content, CHOOSE i \in inked : \A j \in inked : i <= j,
                             CHOOSE i \in inked : \A j \in inked : i >= j)

SummarizedMark ==
    << ".", ".", ".", "[", "s", "u", "m", "m", "a", "r", "i", "z", "e", "d", "]", ".", ".", "." >>

\* format!("{}...[summarized]...{}", beginning.trim(), end.trim())
compress_message(budget, content) ==
    LET max_length == (budget.recent_messages \div 3) * 4
        quarter_length == max_length \div 4
        beginning == SubSeq(content, 1, Min(quarter_length, Len(content)))
        end_start == SatSub(Len(content), quarter_length)
        end == SubSeq(content, end_start + 1, Len(content))
    IN  IF Len(content) <= max_length THEN content
        ELSE Trim(beginning) \o SummarizedMark \o Trim(end)

RECURSIVE MessageLoop_NoBreak(_, _, _, _)
\* Mutant of MessageLoop: the loop goes on after a message that did not fit
MessageLoop_NoBreak(budget, messages, i, acc) ==
    IF i = 0 THEN acc
    ELSE LET message == messages[i]
             tokens == estimate_tokens(TextOf(message.content))
             compressed_content == compress_message(budget, message.content)
             compressed_tokens == estimate_tokens(TextOf(compressed_content))
         IN  MessageLoop_NoBreak(budget, messages, i - 1,
                IF acc.tokens + tokens <= budget.recent_messages
                THEN [ acc EXCEPT !.kept = <<message>> \o @, !.tokens = @ + tokens ]
                ELSE IF /\ tokens > budget.recent_messages \div 3
                        /\ acc.tokens + compressed_tokens <= budget.recent_messages
                     THEN [ acc EXCEPT
                              !.kept = << [ message EXCEPT !.content = compressed_content ] >> \o @,
                              !.tokens = @ + compressed_tokens,
                              !.compressed = @ + 1 ]
                     ELSE acc)

RECURSIVE MessageLoop(_, _, _, _)
\* for message in messages.iter().rev(), up to the first break
MessageLoop(budget, messages, i, acc) ==
    IF i = 0 THEN acc
    ELSE LET message == messages[i]
             tokens == estimate_tokens(TextOf(message.content))
             compressed_content == compress_message(budget, message.content)
             compressed_tokens == estimate_tokens(TextOf(compressed_content))
         IN  IF acc.tokens + tokens <= budget.recent_messages
             THEN MessageLoop(budget, messages, i - 1,
                      [ acc EXCEPT !.kept = <<message>> \o @, !.tokens = @ + tokens ])
             ELSE IF /\ tokens > budget.recent_messages \div 3
                     /\ acc.tokens + compressed_tokens <= budget.recent_messages
                  THEN [ acc EXCEPT
                           !.kept = << [ message EXCEPT !.content = compressed_content ] >> \o @,
                           !.tokens = @ + compressed_tokens,
                           !.compressed = @ + 1 ]
                  ELSE acc

\* Mutant of optimize_message_context: the usage is added to what was recorded
optimize_message_context_Accumulates(mon, messages) ==
    IF messages = <<>> THEN [ monitor |-> mon, returned |-> messages ]
    ELSE LET done == MessageLoop(mon.budget, messages, Len(messages),
                                 [ kept |-> <<>>, tokens |-> 0, compressed |-> 0 ])
         IN  [ monitor |-> [ mon EXCEPT !.current_usage.message_tokens = @ + done.tokens,
                                        !.optimization_stats.messages_compressed = @ + done.compressed ],
               returned |-> done.kept ]

optimize_message_context(mon, messages) ==
    IF messages = <<>> THEN [ monitor |-> mon, returned |-> messages ]
    ELSE LET done == MessageLoop(mon.budget, messages, Len(messages),
                                 [ kept |-> <<>>, tokens |-> 0, compressed |-> 0 ])
         IN  [ monitor |-> [ mon EXCEPT !.current_usage.message_tokens = done.tokens,
                                        !.optimization_stats.messages_compressed = @ + done.compressed ],
               returned |-> done.kept ]

\* ---- statistics

\* (total_utilization as f32 / total as f32 * 100.0) as u8.  For totals up to
\* 4096 and a utilization up to twice the total, the f32 product is one below
\* the exact quotient at the six ratios listed and equal to it elsewhere; a NaN
\* casts to 0 and an infinity to 255.
UtilizationPercentage(total_utilization, total) ==
    IF total = 0 THEN (IF total_utilization = 0 THEN 0 ELSE 255)
    ELSE LET exact == (total_utilization * 100) \div total
             short == \E k \in {53, 59, 105, 106, 117, 118} : total_utilization * 100 = k * total
         IN  Min(IF short THEN exact - 1 ELSE exact, 255)

\* Mutant of OverflowRisk: 85% itself counts as a risk
OverflowRisk_Inclusive(total_context_tokens, total) ==
    total_context_tokens >= MulTrunc(total, 85, 100)

\* total_context_tokens > (total as f32 * 0.85) as usize
OverflowRisk(total_context_tokens, total) ==
    total_context_tokens > MulTrunc(total, 85, 100)

\* returns the monitor after the call and the TokenUsageStatistics
get_usage_statistics(mon) ==
    LET u == mon.current_usage
        total_context_tokens ==
            u.system_tokens + u.attitude_tokens + u.third_party_tokens + u.message_tokens
        remaining_response_tokens ==
            Min(mon.budget.response_buffer, SatSub(mon.budget.total, total_context_tokens))
        total_utilization == total_context_tokens + remaining_response_tokens
        overflow == total_context_tokens > mon.budget.total - mon.budget.response_buffer
        after == [ mon EXCEPT
                     !.current_usage.total_context_tokens = total_context_tokens,
                     !.optimization_stats.overflow_events = IF overflow THEN @ + 1 ELSE @ ]
    IN  [ monitor |-> after,
          returned |-> [ budget |-> after.budget,
                         current_usage |-> after.current_usage,
                         remaining_response_tokens |-> remaining_response_tokens,
                         utilization_percentage |->
                             UtilizationPercentage(total_utilization, mon.budget.total),
                         optimization_stats |-> after.optimization_stats,
                         overflow_risk |-> OverflowRisk(total_context_tokens, mon.budget.total) ] ]

-----------------------------------------------------------------------------
(* The optimizers of a TokenUsageMonitor: SpecOptimize *)

\* (vram_gb, max_configured) the monitor's budget is made from
MonitorBudgets == { <<2, 40>>, <<4, 100>>, <<6, 200>> }

Attitude(id, trust, joy, curiosity, relationship_score) ==
    [ id |-> id, target_type |-> "test", trust |-> trust, joy |-> joy,
      curiosity |-> curiosity, relationship_score |-> relationship_score ]

Attitudes ==
    { Attitude(1, 80, 70, 60, <<70>>), Attitude(2, 5, 3, 2, <<3>>),
      Attitude(3, 45, 50, 40, <<>>),   Attitude(4, -20, 16, 0, <<>>) }

ThirdParties ==
    { [ name |-> "Alice", relationship_to_user |-> <<"friend">>, occupation |-> <<"tester">>,
        personality_traits |-> <<"helpful">>, mention_count |-> 15, importance_score |-> 9 ],
      [ name |-> "Bob", relationship_to_user |-> <<>>, occupation |-> <<>>,
        personality_traits |-> <<>>, mention_count |-> 2, importance_score |-> 3 ],
      [ name |-> "Dave", relationship_to_user |-> <<>>, occupation |-> <<>>,
        personality_traits |-> <<"helpful,curious,talkative,stubborn,loyal">>,
        mention_count |-> 1, importance_score |-> 1 ] }

RECURSIVE Words(_, _)
\* n words of w letters, one blank between them
Words(n, w) ==
    IF n = 0 THEN <<>>
    ELSE (IF n = 1 THEN <<>> ELSE Words(n - 1, w) \o <<" ">>) \o [ i \in 1..w |-> "a" ]

Contents == { Words(2, 4), Words(6, 5), Words(20, 4) }

\* the lists of at most two different items of a set
ListsOf(items) ==
    { <<>> } \cup { <<x>> : x \in items }
             \cup { <<pair[1], pair[2]>> : pair \in { p \in items \X items : p[1] # p[2] } }

\* the histories of at most two messages, an older and a recent one
MessageLists ==
    { <<>> } \cup { << [ id |-> 1, ai |-> FALSE, content |-> c ] >> : c \in Contents }
             \cup { << [ id |-> 1, ai |-> FALSE, content |-> p[1] ],
                       [ id |-> 2, ai |-> TRUE, content |-> p[2] ] >> : p \in Contents \X Contents }

StatEvents(mon) ==
    mon.optimization_stats.attitudes_filtered + mon.optimization_stats.third_parties_filtered
        + mon.optimization_stats.messages_compressed

OptimizeInit ==
    /\ \E b \in MonitorBudgets : monitor = NewMonitor(from_vram_limit(b[1], b[2]))
    /\ opt_call = <<>>
    /\ statistics = <<>>
    /\ CtxIdle /\ FnIdle /\ GpuIdle
    /\ MsgIdle /\ CacheIdle /\ SessIdle

\* The call is recorded: what went in, what came back, the usage it left
OptimizerCalled(fn, input, result, usage, rerun) ==
    /\ monitor' = result.monitor
    /\ opt_call' = << [ fn |-> fn, input |-> input, returned |-> result.returned,
                        usage |-> usage, rerun |-> rerun,
                        first_usage |-> IF rerun THEN opt_call[1].usage ELSE usage ] >>
    /\ UNCHANGED <<statistics, notMon>>

IsFirstRun(fn) == opt_call # <<>> /\ opt_call[1].fn = fn /\ ~opt_call[1].rerun

\* let kept = monitor.optimize_attitude_context(attitudes)
OptimizeAttitudes(attitudes) ==
    /\ StatEvents(monitor) < MaxStatEvents
    /\ LET result == optimize_attitude_context(monitor, attitudes)
       IN  OptimizerCalled("optimize_attitude_context", attitudes, result,
                           result.monitor.current_usage.attitude_tokens, FALSE)

\* monitor.optimize_attitude_context(kept)
ReoptimizeAttitudes ==
    /\ IsFirstRun("optimize_attitude_context")
    /\ LET result == optimize_attitude_context(monitor, opt_call[1].returned)
       IN  OptimizerCalled("optimize_attitude_context", opt_call[1].returned, result,
                           result.monitor.current_usage.attitude_tokens, TRUE)

OptimizeThirdParties(third_parties) ==
    /\ StatEvents(monitor) < MaxStatEvents
    /\ LET result == optimize_third_party_context(monitor, third_parties)
       IN  OptimizerCalled("optimize_third_party_context", third_parties, result,
                           result.monitor.current_usage.third_party_tokens, FALSE)

ReoptimizeThirdParties ==
    /\ IsFirstRun("optimize_third_party_context")
    /\ LET result == optimize_third_party_context(monitor, opt_call[1].returned)
       IN  OptimizerCalled("optimize_third_party_context", opt_call[1].returned, result,
                           result.monitor.current_usage.third_party_tokens, TRUE)

OptimizeMessages(messages) ==
    /\ StatEvents(monitor) < MaxStatEvents
    /\ LET result == optimize_message_context(monitor, messages)
       IN  OptimizerCalled("optimize_message_context", messages, result,
                           result.monitor.current_usage.message_tokens, FALSE)

ReoptimizeMessages ==
    /\ IsFirstRun("optimize_message_context")
    /\ LET result == optimize_message_context(monitor, opt_call[1].returned)
       IN  OptimizerCalled("optimize_message_context", opt_call[1].returned, result,
                           result.monitor.current_usage.message_tokens, TRUE)

OptimizeNext ==
    \/ \E attitudes \in ListsOf(Attitudes) : OptimizeAttitudes(attitudes)
    \/ ReoptimizeAttitudes
    \/ \E third_parties \in ListsOf(ThirdParties) : OptimizeThirdParties(third_parties)
    \/ ReoptimizeThirdParties
    \/ \E messages \in MessageLists : OptimizeMessages(messages)
    \/ ReoptimizeMessages

SpecOptimize == OptimizeInit /\ [][OptimizeNext]_vars

\* C9: an optimizer run again on what it returned, with the same budget, returns
\* the same items, dropping none, and records a usage for its category that is
\* no larger than the first run recorded.
C9_RerunKeepsAll ==
    (opt_call # <<>> /\ opt_call[1].rerun) =>
        /\ opt_call[1].returned = opt_call[1].input
        /\ opt_call[1].usage <= opt_call[1].first_usage

\* C9 witness: the message optimizer has been run again on two messages it
\* returned, the older of them compressed.
C9_Witness ==
    /\ opt_call # <<>> /\ opt_call[1].rerun
    /\ opt_call[1].fn = "optimize_message_context"
    /\ Len(opt_call[1].input) = 2
    /\ opt_call[1].input[1].content \notin Contents
    /\ opt_call[1].usage > 0

-----------------------------------------------------------------------------
(* The statistics of a TokenUsageMonitor: SpecUsage *)

\* (vram_gb, max_configured) of the budgets whose statistics are taken
UsageBudgets == { <<2, 20>>, <<2, 40>>, <<4, 47>> }

\* A monitor whose optimizers have used nothing or all of their sub-budgets
UsageInit ==
    /\ \E b \in UsageBudgets :
         LET budget == from_vram_limit(b[1], b[2])
         IN  \E a \in {0, budget.attitude_data}, t \in {0, budget.third_party_info},
                m \in {0, budget.recent_messages} :
                monitor = [ NewMonitor(budget) EXCEPT
                              !.current_usage.attitude_tokens = a,
                              !.current_usage.third_party_tokens = t,
                              !.current_usage.message_tokens = m ]
    /\ opt_call = <<>>
    /\ statistics = <<>>
    /\ CtxIdle /\ FnIdle /\ GpuIdle
    /\ MsgIdle /\ CacheIdle /\ SessIdle

\* self.usage_monitor.current_usage.system_tokens = system_tokens
SetSystemTokens(system_tokens) ==
    /\ monitor' = [ monitor EXCEPT !.current_usage.system_tokens = system_tokens ]
    /\ UNCHANGED <<opt_call, statistics, notMon>>

\* let usage_stats = monitor.get_usage_statistics()
GetUsageStatistics ==
    /\ monitor.optimization_stats.overflow_events < MaxOverflowEvents
    /\ LET result == get_usage_statistics(monitor)
       IN  /\ monitor' = result.monitor
           /\ statistics' = << result.returned >>
    /\ UNCHANGED <<opt_call, notMon>>

UsageNext ==
    \/ \E system_tokens \in 0..MaxSystemTokens : SetSystemTokens(system_tokens)
    \/ GetUsageStatistics

SpecUsage == UsageInit /\ [][UsageNext]_vars

UsageSum(usage) ==
    usage.system_tokens + usage.attitude_tokens + usage.third_party_tokens
        + usage.message_tokens

\* C10: the statistics report overflow_risk exactly when the system, attitude,
\* third-party and message token counts add up to more than 85% of
\* budget.total, and report none when they add up to 85% or less.
C10_OverflowRisk ==
    statistics # <<>> =>
        (statistics[1].overflow_risk <=>
            UsageSum(statistics[1].current_usage) * 100 > 85 * statistics[1].budget.total)

\* C10 witness: statistics taken one token above 85% of the total report the risk.
C10_Witness ==
    /\ statistics # <<>>
    /\ statistics[1].overflow_risk
    /\ (UsageSum(statistics[1].current_usage) - 1) * 100 <= 85 * statistics[1].budget.total

-----------------------------------------------------------------------------
(* SystemMemoryDetector::calculate_memory_allocation as a function: SpecMemory *)

\* total_ram_gb around the size classes, in 1/GbUnit GB: 4, 7.5, 8, 15.5, 16,
\* 31.5, 32 and 64 GB
TotalRams == {256, 480, 512, 992, 1024, 2016, 2048, 4096}
\* available_ram_gb: 1, 3.5, 4, 6, 12 and 40 GB
AvailableRams == {64, 224, 256, 384, 768, 2560}
\* utilization_percent around the pressure threshold
Utilizations == {50, 85, 86}

\* the readings detect_system_memory() can give: no more available than installed
MemoryReadings ==
    { mi \in [ total_ram : TotalRams, available_ram : AvailableRams,
               utilization_percent : Utilizations ] : mi.available_ram <= mi.total_ram }

\* ram_safety_margin_gb and max_system_ram_usage_gb of the configuration
DetectorConfigs ==
    [ ram_safety_margin_gb : {0, 2}, max_system_ram_usage_gb : {0, 2, 8} ]

MemoryInit ==
    /\ \E cfg \in DetectorConfigs, mi \in MemoryReadings :
            memory_args = << [ cfg |-> cfg, memory_info |-> mi ] >>
    /\ memory_result = <<>>
    /\ BudgetIdle /\ HybridIdle
    /\ CtxIdle /\ GpuIdle /\ MonIdle
    /\ MsgIdle /\ CacheIdle /\ SessIdle

\* let memory_allocation = detector.calculate_memory_allocation(&memory_info)
CallCalculateMemoryAllocation ==
    /\ memory_result = <<>>
    /\ memory_result' = << calculate_memory_allocation(memory_args[1].cfg,
                                                       memory_args[1].memory_info) >>
    /\ UNCHANGED <<memory_args, budget_args, budget_result, hybrid_args, hybrid_result, notFn>>

\* the same call on another reading
NextMemoryReading ==
    /\ memory_result # <<>>
    /\ \E mi \in MemoryReadings : memory_args' = << [ memory_args[1] EXCEPT !.memory_info = mi ] >>
    /\ memory_result' = <<>>
    /\ UNCHANGED <<budget_args, budget_result, hybrid_args, hybrid_result, notFn>>

MemoryNext == CallCalculateMemoryAllocation \/ NextMemoryReading

SpecMemory == MemoryInit /\ [][MemoryNext]_vars

\* C19: calculate_memory_allocation picks VramOnly whenever utilization is above
\* 85% or less than 4 GB are available, and otherwise by total RAM alone (below
\* 8 GB VramOnly, from 8 GB Conservative, from 16 GB Balanced, from 32 GB
\* Aggressive); the recommended usage is 0 / 25% / 50% / 75% of
\* max(available - safety margin, 0), capped at the maximum usage, never
\* negative and never above that maximum.
C19_MemoryAllocation ==
    memory_result # <<>> =>
    LET mi == memory_args[1].memory_info
        cfg == memory_args[1].cfg
        r == memory_result[1]
        margin == IF 2 * cfg.ram_safety_margin_gb >= 1 THEN cfg.ram_safety_margin_gb * GbUnit
                  ELSE GbUnit \div 2
        cap == IF cfg.max_system_ram_usage_gb >= 1 THEN cfg.max_system_ram_usage_gb * GbUnit
               ELSE GbUnit
        remainder == IF mi.available_ram > margin THEN mi.available_ram - margin ELSE 0
        expected ==
            IF mi.utilization_percent > 85 \/ mi.available_ram < 4 * GbUnit THEN "VramOnly"
            ELSE IF mi.total_ram < 8 * GbUnit THEN "VramOnly"
            ELSE IF mi.total_ram < 16 * GbUnit THEN "Conservative"
            ELSE IF mi.total_ram < 32 * GbUnit THEN "Balanced"
            ELSE "Aggressive"
        quarters == CASE expected = "VramOnly" -> 0 [] expected = "Conservative" -> 1
                      [] expected = "Balanced" -> 2 [] expected = "Aggressive" -> 3
    IN  /\ r.allocation_strategy = expected
        /\ r.recommended_usage >= 0
        /\ r.recommended_usage <= cap
        /\ IF quarters * remainder <= 4 * cap
           THEN 4 * r.recommended_usage = quarters * remainder
           ELSE r.recommended_usage = cap

\* C19 witness: a 16 GB machine with 12 GB available is Balanced and is
\* recommended half of what is left after the safety margin.
C19_Witness ==
    /\ memory_result # <<>>
    /\ memory_args[1].memory_info.total_ram = 16 * GbUnit
    /\ memory_args[1].memory_info.available_ram = 12 * GbUnit
    /\ memory_args[1].cfg.ram_safety_margin_gb = 2
    /\ memory_args[1].cfg.max_system_ram_usage_gb = 8
    /\ memory_result[1].allocation_strategy = "Balanced"
    /\ memory_result[1].recommended_usage = 5 * GbUnit

-----------------------------------------------------------------------------
(* ContextManager::calculate_hybrid_context_size as a function: SpecHybrid *)

\* configurations with hybrid mode on: the only ones new() sizes this way
HybridConfigs ==
    [ vram_limit_gb              : {2, 7},
      context_window_size        : {42, 3000, 8192},
      enable_hybrid_context      : {TRUE},
      enable_dynamic_context     : {TRUE},
      context_expansion_strategy : ExpansionStrategies,
      ram_safety_margin_gb       : {0, 2},
      max_system_ram_usage_gb    : {0, 8} ]

\* what the detector answers: Err, or any reading
HybridDetectResults == { <<>> } \cup { <<mi>> : mi \in MemoryReadings }

HybridInit ==
    /\ \E cfg \in HybridConfigs, detected \in HybridDetectResults :
            hybrid_args = << [ cfg |-> cfg, detected |-> detected ] >>
    /\ hybrid_result = <<>>
    /\ BudgetIdle /\ MemoryIdle
    /\ CtxIdle /\ GpuIdle /\ MonIdle
    /\ MsgIdle /\ CacheIdle /\ SessIdle

\* Self::calculate_hybrid_context_size(&config, &system_memory_detector)
CallCalculateHybridContextSize ==
    /\ hybrid_result = <<>>
    /\ LET r == calculate_hybrid_context_size(hybrid_args[1].cfg, hybrid_args[1].detected)
       IN  hybrid_result' = << [ size |-> r[1], allocation |-> r[2] ] >>
    /\ UNCHANGED <<hybrid_args, budget_args, budget_result, memory_args, memory_result, notFn>>

\* the same call when the detector answers differently
NextDetectResult ==
    /\ hybrid_result # <<>>
    /\ \E detected \in HybridDetectResults :
            hybrid_args' = << [ hybrid_args[1] EXCEPT !.detected = detected ] >>
    /\ hybrid_result' = <<>>
    /\ UNCHANGED <<budget_args, budget_result, memory_args, memory_result, notFn>>

HybridNext == CallCalculateHybridContextSize \/ NextDetectResult

SpecHybrid == HybridInit /\ [][HybridNext]_vars

\* the VRAM-only base: the tier's step size clamped to the configured ceiling
VramOnlyBase(cfg) ==
    LET step == IF cfg.vram_limit_gb <= 2 THEN 1024
                ELSE IF cfg.vram_limit_gb <= 4 THEN 2048
                ELSE IF cfg.vram_limit_gb <= 6 THEN 3072
                ELSE 4096
    IN  IF step <= cfg.context_window_size THEN step ELSE cfg.context_window_size

\* one of the fallback conditions of hybrid sizing holds
HybridFallsBack(cfg, detected) ==
    \/ detected = <<>>
    \/ /\ detected # <<>>
       /\ \/ calculate_memory_allocation(cfg, detected[1]).recommended_usage < GbUnit
          \/ detected[1].utilization_percent > 85
          \/ detected[1].available_ram < (IF cfg.ram_safety_margin_gb >= 1
                                          THEN cfg.ram_safety_margin_gb * GbUnit
                                          ELSE GbUnit \div 2)

\* C13: with hybrid mode on, when the recommended usable RAM is under 1 GB, or
\* the system is under memory pressure, or RAM detection fails, the context
\* size is exactly the VRAM-only base and no HybridContextAllocation is
\* recorded; an allocation is recorded only when none of these holds.
C13_HybridFallback ==
    hybrid_result # <<>> =>
    LET cfg == hybrid_args[1].cfg
        detected == hybrid_args[1].detected
        r == hybrid_result[1]
    IN  /\ HybridFallsBack(cfg, detected) =>
                r.size = VramOnlyBase(cfg) /\ r.allocation = <<>>
        /\ r.allocation # <<>> => ~HybridFallsBack(cfg, detected)

\* C13 witness: a reading whose recommendation is under 1 GB (4 GB available
\* on an 8 GB machine, 2 GB margin, no pressure) falls back to the base.
C13_Witness ==
    /\ hybrid_result # <<>>
    /\ hybrid_args[1].detected # <<>>
    /\ hybrid_args[1].detected[1].utilization_percent = 50
    /\ hybrid_args[1].detected[1].available_ram = 4 * GbUnit
    /\ hybrid_args[1].detected[1].total_ram = 8 * GbUnit
    /\ hybrid_args[1].cfg.ram_safety_margin_gb = 2
    /\ hybrid_args[1].cfg.context_expansion_strategy = "balanced"
    /\ hybrid_args[1].cfg.context_window_size = 3000
    /\ hybrid_args[1].cfg.vram_limit_gb = 7
    /\ hybrid_result[1].allocation = <<>>
    /\ hybrid_result[1].size = 3000

\* the strategy the configuration string names, if it names one
ExplicitStrategy(cfg) ==
    CASE cfg.context_expansion_strategy = "vram_only"    -> <<"VramOnly">>
      [] cfg.context_expansion_strategy = "conservative" -> <<"Conservative">>
      [] cfg.context_expansion_strategy = "balanced"     -> <<"Balanced">>
      [] cfg.context_expansion_strategy = "aggressive"   -> <<"Aggressive">>
      [] OTHER -> <<>>

\* C18: an explicit expansion-strategy setting always determines the hybrid
\* strategy whatever the strategist derived, any other value defers to the
\* strategist, and the RAM bonus is 0 / 25% / 50% / 100% of the VRAM base
\* before clamping to the RAM-derived cap and to the configured ceiling.
C18_StrategyAndBonus ==
    (hybrid_result # <<>> /\ hybrid_result[1].allocation # <<>>) =>
    LET cfg == hybrid_args[1].cfg
        mi == hybrid_args[1].detected[1]
        a == hybrid_result[1].allocation[1]
        derived == calculate_memory_allocation(cfg, mi)
        base == VramOnlyBase(cfg)
        bonus == CASE a.allocation_strategy = "VramOnly"     -> 0
                   [] a.allocation_strategy = "Conservative" -> base \div 4
                   [] a.allocation_strategy = "Balanced"     -> base \div 2
                   [] a.allocation_strategy = "Aggressive"   -> base
        cap == (derived.recommended_usage * TokensPerGb) \div GbUnit
        capped == IF bonus <= cap THEN bonus ELSE cap
        total == IF base + capped <= cfg.context_window_size
                 THEN base + capped ELSE cfg.context_window_size
    IN  /\ ExplicitStrategy(cfg) # <<>> => a.allocation_strategy = ExplicitStrategy(cfg)[1]
        /\ ExplicitStrategy(cfg) = <<>> => a.allocation_strategy = derived.allocation_strategy
        /\ a.vram_context_tokens = base
        /\ a.total_context_tokens = total
        /\ hybrid_result[1].size = total
        /\ a.system_ram_context_tokens = total - base

\* C18 witness: "aggressive" is configured on a machine the strategist rates
\* Conservative; the allocation is Aggressive and doubles the base.
C18_Witness ==
    /\ hybrid_result # <<>>
    /\ hybrid_result[1].allocation # <<>>
    /\ hybrid_args[1].cfg.context_expansion_strategy = "aggressive"
    /\ hybrid_args[1].cfg.vram_limit_gb = 2
    /\ hybrid_args[1].cfg.context_window_size = 8192
    /\ calculate_memory_allocation(hybrid_args[1].cfg, hybrid_args[1].detected[1]).allocation_strategy
            = "Conservative"
    /\ hybrid_result[1].allocation[1].allocation_strategy = "Aggressive"
    /\ hybrid_result[1].allocation[1].system_ram_context_tokens = 1024
    /\ hybrid_result[1].size = 2048

-----------------------------------------------------------------------------
(* GpuAllocator: what fits, pressure, classification and growth *)

\* the usable VRAM of calculate_optimal_layers_v2: the tier's safety margin
\* times min(available, configured limit), minus the tier's minimum-free reserve
UsableVramV2 ==
    LET limit == alloc_call[1].vram_limit_gb
        effective == IF limit > 0 /\ limit * 1024 < gpu_info.available_vram_mb
                     THEN limit * 1024 ELSE gpu_info.available_vram_mb
        margin == IF gpu_info.total_vram_mb >= 3500 THEN 90
                  ELSE IF gpu_info.total_vram_mb >= 2048 THEN 85
                  ELSE allocator.safety_margin_percent
        min_free == IF gpu_info.total_vram_mb >= 3500 THEN 256
                    ELSE IF gpu_info.total_vram_mb >= 2048 THEN 384
                    ELSE allocator.min_free_vram_mb
        safe == (effective * margin) \div 100
    IN  IF safe > min_free THEN safe - min_free ELSE 0

\* C11 as stated: for every allocation calculate_optimal_layers_v2 returns with
\* layers on the GPU, gpu_layers times the per-layer cost (model size divided
\* over total_layers) plus the 300 MB architecture+cache reserve is at most the
\* usable VRAM.
C11_Original ==
    (/\ allocation # <<>>
     /\ alloc_call[1].fn = "calculate_optimal_layers_v2"
     /\ allocation[1].gpu_layers > 0) =>
        allocation[1].gpu_layers * (model.model_size_mb \div model.total_layers) + 300
            <= UsableVramV2

\* the live reading shows pressure: utilization above 90% or less than a tenth
\* of the VRAM available
UnderPressure(live) ==
    \/ live.utilization_percent > 90
    \/ live.total_vram_mb > 0 /\ 10 * live.available_vram_mb < live.total_vram_mb

\* C12: when live utilization is above 90% or available/total VRAM is below
\* 10%, and the current allocation has gpu_layers > 0, the monitor returns an
\* allocation with strictly fewer gpu_layers, the floor of 80% of the current
\* count, and the same total_layers.
C12_ReducesUnderPressure ==
    (/\ monitor_call # <<>>
     /\ UnderPressure(monitor_call[1].live)
     /\ monitor_call[1].current.gpu_layers > 0) =>
        /\ suggestion # <<>>
        /\ suggestion[1].gpu_layers < monitor_call[1].current.gpu_layers
        /\ suggestion[1].gpu_layers = (4 * monitor_call[1].current.gpu_layers) \div 5
        /\ suggestion[1].total_layers = monitor_call[1].current.total_layers

\* C12 witness: 29 of 32 layers on the GPU, a reading with 95% utilization and
\* 6% of the VRAM available, and the suggestion of 23 layers.
C12_Witness ==
    /\ monitor_call # <<>> /\ suggestion # <<>>
    /\ monitor_call[1].live.utilization_percent = 95
    /\ monitor_call[1].current.gpu_layers = 29
    /\ monitor_call[1].current.total_layers = 32
    /\ suggestion[1].gpu_layers = 23
    /\ suggestion[1].total_layers = 32

\* the live reading shows room: utilization below 50% and more than three
\* tenths of the VRAM available
HasHeadroom(live) ==
    /\ live.utilization_percent < 50
    /\ live.total_vram_mb > 0 /\ 10 * live.available_vram_mb > 3 * live.total_vram_mb

ClassByPercent(gpu, total, total_vram_mb) ==
    IF gpu = 0 THEN "CpuFallback"
    ELSE IF gpu = total THEN "MaxGpu"
    ELSE IF 5 * gpu >= 4 * total /\ total_vram_mb >= 3500 THEN "Aggressive"
    ELSE IF 2 * gpu >= total THEN "Balanced"
    ELSE "Conservative"

\* the class the two methods give: thresholds rounded down, and Aggressive
\* only where `aggressive` says the method has it
ClassByFloor(gpu, total, total_vram_mb, aggressive) ==
    IF gpu = 0 THEN "CpuFallback"
    ELSE IF gpu = total THEN "MaxGpu"
    ELSE IF aggressive /\ gpu >= (8 * total) \div 10 /\ total_vram_mb >= 3500 THEN "Aggressive"
    ELSE IF gpu >= total \div 2 THEN "Balanced"
    ELSE "Conservative"

\* the worked example: 4096 MB in 32 layers, 8192 MB total / 6144 MB available,
\* no configured limit, the default allocator
IsScenario ==
    /\ allocation # <<>>
    /\ model = [ model_size_mb |-> 4096, total_layers |-> 32 ]
    /\ gpu_info.total_vram_mb = 8192 /\ gpu_info.available_vram_mb = 6144
    /\ alloc_call[1].vram_limit_gb = 0
    /\ allocator = NewAllocator(80, 512)

-----------------------------------------------------------------------------
(* TokenUsageMonitor: what the optimizers return *)

\* the token estimate of one returned item, formatted as its optimizer formats it
FormattedTokens(fn, item) ==
    CASE fn = "optimize_attitude_context" ->
            estimate_tokens(format_attitude_for_context(item))
      [] fn = "optimize_third_party_context" ->
            estimate_tokens(format_third_party_for_context(item))
      [] fn = "optimize_message_context" ->
            estimate_tokens(TextOf(item.content))

RECURSIVE ReturnedTokens(_, _, _)
\* the summed estimate of the first n returned items
ReturnedTokens(fn, returned, n) ==
    IF n = 0 THEN 0
    ELSE ReturnedTokens(fn, returned, n - 1) + FormattedTokens(fn, returned[n])

\* the sub-budget of the optimizer's category
SubBudget(fn, budget) ==
    CASE fn = "optimize_attitude_context"    -> budget.attitude_data
      [] fn = "optimize_third_party_context" -> budget.third_party_info
      [] fn = "optimize_message_context"     -> budget.recent_messages

\* C14 as stated: after each optimize_* call the summed token estimate of the
\* returned items, each formatted as the optimizer formats it, is at most the
\* category's sub-budget and equals the usage recorded for the category.
C14_Original ==
    opt_call # <<>> =>
        LET sum == ReturnedTokens(opt_call[1].fn, opt_call[1].returned,
                                  Len(opt_call[1].returned))
        IN  /\ sum <= SubBudget(opt_call[1].fn, monitor.budget)
            /\ sum = opt_call[1].usage

\* the messages of `returned` are the last Len(returned) messages of `input`,
\* in order, each with its own content or, for the first of them only, with
\* its content compressed
IsSuffixOf(returned, input, budget) ==
    /\ Len(returned) <= Len(input)
    /\ \A k \in 1..Len(returned) :
          LET original == input[Len(input) - Len(returned) + k]
          IN  \/ returned[k] = original
              \/ /\ k = 1
                 /\ returned[k] = [ original EXCEPT
                                      !.content = compress_message(budget, original.content) ]

-----------------------------------------------------------------------------
(* ContextManager: the order of the crisis strategies *)

\* a step that is a call of handle_response_budget_crisis which took `strategy`
\* (every step but reset_usage_monitor is such a call)
CrisisStepOf(strategy) ==
    /\ last'.op = "crisis"
    /\ last'.strategy = strategy

\* the token budget recalculate_token_budget() installs for the new allocation
RebuiltBudget ==
    from_vram_limit(config.vram_limit_gb, hybrid_context_allocation'[1].total_context_tokens)

\* what one call does, by the strategy it takes
CrisisOrder ==
    /\ CrisisStepOf(0) =>
          /\ token_budget' = token_budget
          /\ hybrid_context_allocation' = hybrid_context_allocation
    /\ CrisisStepOf(1) =>
          /\ config.enable_hybrid_context
          /\ hybrid_context_allocation = <<>>
          /\ hybrid_context_allocation' # <<>>
          /\ token_budget' = RebuiltBudget
    /\ CrisisStepOf(2) =>
          /\ hybrid_context_allocation # <<>>
          /\ hybrid_context_allocation' # <<>>
          /\ LET old == hybrid_context_allocation[1]
                 new == hybrid_context_allocation'[1]
                 grown == (old.system_ram_context_tokens * 3) \div 2
             IN  /\ new.vram_context_tokens = old.vram_context_tokens
                 /\ new.system_ram_context_tokens > old.system_ram_context_tokens
                 /\ new.system_ram_context_tokens <= grown
                 /\ new.total_context_tokens <= config.context_window_size
                 /\ new.total_context_tokens =
                        new.vram_context_tokens + new.system_ram_context_tokens
                 /\ \/ new.system_ram_context_tokens = grown
                    \/ new.total_context_tokens = config.context_window_size
          /\ token_budget' = RebuiltBudget
    /\ CrisisStepOf(3) =>
          /\ hybrid_context_allocation' = hybrid_context_allocation
          /\ LET attitude_cut == token_budget.attitude_data \div 4
                 third_party_cut == token_budget.third_party_info \div 2
             IN  token_budget' =
                     [ token_budget EXCEPT
                         !.attitude_data = @ - attitude_cut,
                         !.third_party_info = @ - third_party_cut,
                         !.response_buffer = @ + attitude_cut + third_party_cut ]
    /\ (hybrid_context_allocation = <<>> /\ hybrid_context_allocation' # <<>>) =>
          CrisisStepOf(1)
    /\ (hybrid_context_allocation # <<>>
        /\ hybrid_context_allocation' # hybrid_context_allocation) =>
          CrisisStepOf(2)
    /\ token_budget' # token_budget =>
          \/ CrisisStepOf(1) \/ CrisisStepOf(2) \/ CrisisStepOf(3)

\* C15: handle_response_budget_crisis keeps the priority order: strategy 1
\* (build a hybrid allocation) is taken only when hybrid context is enabled and
\* no allocation is active; strategy 2 (grow the RAM part by 50%, bounded by
\* the ceiling) only when an allocation is active; strategy 3 (shrink
\* attitude_data by 25% and third_party_info by 50%, adding exactly the freed
\* tokens to response_buffer) only when neither earlier strategy installed an
\* allocation; and one call changes the budget by one strategy only.
C15_CrisisOrder == [][CrisisOrder]_vars

\* C15 witness: a call has grown the RAM part of an active allocation.
C15_Witness ==
    /\ last # <<>> /\ last.op = "crisis" /\ last.strategy = 2
    /\ hybrid_context_allocation # <<>>
    /\ token_budget # last.pre

-----------------------------------------------------------------------------
(* ContextManager: the budget across crisis calls *)

\* C26 as stated: in every reachable state of a ContextManager
\* usage_monitor.budget equals token_budget, in all five category sizes and in
\* total.
C26_Original ==
    usage_monitor.budget = token_budget

\* C27 as stated: with hybrid context enabled, no call of
\* handle_response_budget_crisis leaves token_budget.response_buffer smaller
\* than it found it.
C27_Original ==
    (config.enable_hybrid_context /\ last.op = "crisis") =>
        token_budget.response_buffer >= last.pre.response_buffer

-----------------------------------------------------------------------------
(* ContextManager without hybrid context: SpecRealloc *)

\* ContextManager::new(config) with enable_hybrid_context off
ReallocInit ==
    /\ \E cfg \in Configs, detected \in DetectResults :
            ~cfg.enable_hybrid_context /\ New(cfg, detected)
    /\ FnIdle /\ GpuIdle /\ MonIdle
    /\ MsgIdle /\ CacheIdle /\ SessIdle

\* without hybrid context strategies 1 and 2 are never taken
ReallocNext ==
    \/ \E crb \in ResponseBudgets, detected \in DetectResults : CrisisNone(crb, detected)
    \/ \E crb \in ResponseBudgets, detected \in DetectResults : CrisisReallocate(crb, detected)
    \/ ResetUsageMonitor

\* the caller keeps reporting a response budget below the threshold
RepeatedCrisis ==
    \E detected \in DetectResults : CrisisReallocate(CrisisThreshold - 1, detected)

SpecRealloc == ReallocInit /\ [][ReallocNext]_vars /\ WF_vars(RepeatedCrisis)

\* one more reallocation would change nothing
AtFixedPoint ==
    reallocate_token_budget_for_response(token_budget) = token_budget

\* what any step does to the budget
BudgetOnlyMovesToResponse ==
    /\ token_budget'.response_buffer >= token_budget.response_buffer
    /\ token_budget'.attitude_data <= token_budget.attitude_data
    /\ token_budget'.third_party_info <= token_budget.third_party_info
    /\ token_budget'.total = token_budget.total
    /\ BudgetSum(token_budget') = BudgetSum(token_budget)

\* C21: with hybrid context disabled, repeated calls of
\* handle_response_budget_crisis with a response budget below 100 reach a
\* fixed point after finitely many calls: response_buffer never decreases,
\* attitude_data and third_party_info never increase, total stays constant,
\* and from some call on the token budget no longer changes.
C21_ReachesFixedPoint ==
    /\ [][BudgetOnlyMovesToResponse]_vars
    /\ <>[]AtFixedPoint

\* C21 witness: a 1024-token budget has been reallocated down to its fixed
\* point, attitude_data 3 and third_party_info 1.
C21_Witness ==
    /\ ~config.enable_hybrid_context
    /\ last.op = "crisis" /\ last.strategy = 3
    /\ token_budget.total = 1024
    /\ token_budget.attitude_data = 3 /\ token_budget.third_party_info = 1
    /\ token_budget.response_buffer = 153 + 201 + 101
    /\ AtFixedPoint

-----------------------------------------------------------------------------
(* context_manager.rs: manage_message_context: SpecManage *)
(* A message is measured by the byte length of its content, which is all   *)
(* that estimate_tokens and truncate_message read of it; contents are      *)
(* ASCII, so the slice in truncate_message falls on a character boundary.  *)

\* ContextManager::estimate_tokens: (text.len() as f32 / 4.0).ceil() as usize
ContextManager_estimate_tokens(content) == (content + 3) \div 4

\* length of "... [truncated]"
TruncatedMarkLen == 15

\* truncate_message(content, max_tokens): the length of what it returns
truncate_message(content, max_tokens) ==
    LET max_chars == max_tokens * 4
    IN  IF content <= max_chars THEN content
        ELSE SatSub(max_chars, 20) + TruncatedMarkLen

RECURSIVE ManageLoop(_, _, _, _)
\* for message in messages.iter().rev().skip(1): messages[i] and the older ones
ManageLoop(budget, messages, i, acc) ==
    IF i < 1 THEN acc
    ELSE LET message == messages[i]
             tokens == ContextManager_estimate_tokens(message.content)
         IN  IF acc.current_tokens + tokens <= budget
             THEN ManageLoop(budget, messages, i - 1,
                             [ selected_messages |-> << message >> \o acc.selected_messages,
                               current_tokens |-> acc.current_tokens + tokens ])
             ELSE IF tokens > budget \div 4
             THEN LET truncated_content == truncate_message(message.content, budget \div 4)
                      truncated_tokens == ContextManager_estimate_tokens(truncated_content)
                  IN  IF acc.current_tokens + truncated_tokens <= budget
                      THEN [ selected_messages |->
                                 << [ message EXCEPT !.content = truncated_content ] >>
                                     \o acc.selected_messages,
                             current_tokens |-> acc.current_tokens + truncated_tokens ]
                      ELSE acc
             ELSE acc

\* manage_message_context(messages) of a manager whose message_token_budget is budget
manage_message_context(budget, messages) ==
    IF messages = <<>> THEN messages
    ELSE LET last_message == messages[Len(messages)]
             tokens == ContextManager_estimate_tokens(last_message.content)
             first == IF tokens <= budget
                      THEN [ selected_messages |-> << last_message >>, current_tokens |-> tokens ]
                      ELSE [ selected_messages |-> <<>>, current_tokens |-> 0 ]
         IN  ManageLoop(budget, messages, Len(messages) - 1, first).selected_messages

\* content lengths of the stored messages: a few words, a sentence, a paragraph, a page
ContentLengths == {9, 40, 130, 3000}

\* short-term memories of one to three messages, oldest first
Histories ==
    { <<>> } \cup { << [ id |-> 1, content |-> a ] >> : a \in ContentLengths }
             \cup { << [ id |-> 1, content |-> p[1] ], [ id |-> 2, content |-> p[2] ] >> :
                        p \in ContentLengths \X ContentLengths }
             \cup { << [ id |-> 1, content |-> p[1] ], [ id |-> 2, content |-> p[2] ],
                       [ id |-> 3, content |-> p[3] ] >> :
                        p \in ContentLengths \X ContentLengths \X ContentLengths }

ManageInit ==
    /\ \E cfg \in Configs, detected \in DetectResults : New(cfg, detected)
    /\ FnIdle /\ GpuIdle /\ MonIdle
    /\ MsgIdle /\ CacheIdle /\ SessIdle

\* let managed_messages = context_manager.manage_message_context(messages)
ManageMessageContext(messages) ==
    /\ manage_call' = << [ messages |-> messages,
                           returned |-> manage_message_context(message_token_budget, messages) ] >>
    /\ UNCHANGED <<ctxVars, context, overflow_call, notMsg>>

ManageNext == \E messages \in Histories : ManageMessageContext(messages)

SpecManage == ManageInit /\ [][ManageNext]_vars

RECURSIVE ManagedTokens(_, _)
\* the summed token estimate of the first n messages of a list
ManagedTokens(messages, n) ==
    IF n = 0 THEN 0
    ELSE ManagedTokens(messages, n - 1) + ContextManager_estimate_tokens(messages[n].content)

\* C22: for every non-empty input the result of manage_message_context ends with
\* the most recent message of the input, and the token estimates of the returned
\* messages sum to at most message_token_budget.
C22_Original ==
    (manage_call # <<>> /\ manage_call[1].messages # <<>>) =>
        LET messages == manage_call[1].messages
            returned == manage_call[1].returned
        IN  /\ returned # <<>>
            /\ returned[Len(returned)] = messages[Len(messages)]
            /\ ManagedTokens(returned, Len(returned)) <= message_token_budget

-----------------------------------------------------------------------------
(* context_manager.rs: optimize_full_context, handle_context_overflow:     *)
(* SpecOverflow                                                            *)

\* check_overflow_risk(&self)
check_overflow_risk(mon, tb) ==
    OverflowRisk(mon.current_usage.total_context_tokens, tb.total)

\* optimize_full_context: the monitor after the call and the OptimizedContext
optimize_full_context(mon, tb, system_prompt, messages, attitudes, third_parties) ==
    LET counted == [ mon EXCEPT !.current_usage.system_tokens = estimate_tokens(system_prompt) ]
        optimized_attitudes == optimize_attitude_context(counted, attitudes)
        optimized_third_parties ==
            optimize_third_party_context(optimized_attitudes.monitor, third_parties)
        optimized_messages ==
            optimize_message_context(optimized_third_parties.monitor, messages)
        usage_stats == get_usage_statistics(optimized_messages.monitor)
    IN  [ monitor |-> usage_stats.monitor,
          returned |-> [ system_prompt |-> system_prompt,
                         messages |-> optimized_messages.returned,
                         attitudes |-> optimized_attitudes.returned,
                         third_parties |-> optimized_third_parties.returned,
                         usage_statistics |-> usage_stats.returned,
                         overflow_detected |-> check_overflow_risk(usage_stats.monitor, tb) ] ]

\* compress_message_history(messages, target_count), target_count >= 2
compress_message_history(messages, target_count) ==
    IF Len(messages) <= target_count THEN messages
    ELSE LET remaining_slots == target_count - 1
             step == Len(messages) \div Max(remaining_slots, 1)
             selected_indices ==
                 { k \in 0..(remaining_slots - 1) :
                       k * step < Len(messages) /\ k * step # Len(messages) - 1 }
         IN  [ k \in 1..Cardinality(selected_indices) |-> messages[(k - 1) * step + 1] ]
                 \o << messages[Len(messages)] >>

\* Vec::truncate(len)
Truncate(list, len) == SubSeq(list, 1, Min(len, Len(list)))

\* handle_context_overflow(&mut context): the monitor and the context after
\* the call, and the value returned
handle_context_overflow(mon, tb, ctx) ==
    IF ~ctx.overflow_detected
    THEN [ monitor |-> mon, context |-> ctx, returned |-> FALSE ]
    ELSE LET compressed_messages == compress_message_history(ctx.messages, 3)
             messages_cut == Len(ctx.messages) > 3
                                /\ Len(compressed_messages) < Len(ctx.messages)
             attitudes_cut == Len(ctx.attitudes) > 5
             third_parties_cut == Len(ctx.third_parties) > 3
             overflow_handled == messages_cut \/ attitudes_cut \/ third_parties_cut
             trimmed == [ ctx EXCEPT
                            !.messages = IF messages_cut THEN compressed_messages ELSE @,
                            !.attitudes = IF attitudes_cut THEN Truncate(@, 5) ELSE @,
                            !.third_parties = IF third_parties_cut THEN Truncate(@, 3) ELSE @ ]
             usage_stats == get_usage_statistics(mon)
         IN  IF overflow_handled
             THEN [ monitor |-> usage_stats.monitor,
                    context |-> [ trimmed EXCEPT
                                    !.usage_statistics = usage_stats.returned,
                                    !.overflow_detected =
                                        check_overflow_risk(usage_stats.monitor, tb) ],
                    returned |-> TRUE ]
             ELSE [ monitor |-> mon, context |-> trimmed, returned |-> FALSE ]

\* system prompts: a short persona, and one that fills a 1024-token window
SystemPrompts == { [ chars |-> 240, words |-> 40 ], [ chars |-> 4000, words |-> 640 ] }

\* six attitudes, four third parties and five messages, every one of them small
\* and significant enough to pass the optimizers of the larger budgets
ManyAttitudes == [ i \in 1..6 |-> Attitude(i, 80, 70, 60, <<70>>) ]

ManyThirdParties ==
    [ i \in 1..4 |-> [ name |-> <<"Alice", "Bob", "Carol", "Dave">>[i],
                       relationship_to_user |-> <<>>, occupation |-> <<>>,
                       personality_traits |-> <<>>,
                       mention_count |-> 15, importance_score |-> 9 ] ]

ManyMessages == [ i \in 1..5 |-> [ id |-> i, ai |-> (i % 2 = 0), content |-> Words(2, 4) ] ]

\* the first n items of a list, for some n
Prefixes(list, lens) == { SubSeq(list, 1, n) : n \in lens }

\* managers made without hybrid context
OverflowInit ==
    /\ \E cfg \in Configs, detected \in DetectResults :
            /\ ~cfg.enable_hybrid_context
            /\ cfg.context_expansion_strategy = "auto"
            /\ New(cfg, detected)
    /\ FnIdle /\ GpuIdle /\ MonIdle
    /\ MsgIdle /\ CacheIdle /\ SessIdle

\* let mut context = manager.optimize_full_context(system_prompt, messages, ...)
OptimizeFullContext(system_prompt, messages, attitudes, third_parties) ==
    /\ StatEvents(usage_monitor) < MaxStatEvents
    /\ usage_monitor.optimization_stats.overflow_events < MaxOverflowEvents
    /\ LET result == optimize_full_context(usage_monitor, token_budget, system_prompt,
                                           messages, attitudes, third_parties)
       IN  /\ usage_monitor' = result.monitor
           /\ context' = << result.returned >>
    /\ UNCHANGED <<config, token_budget, hybrid_context_allocation, system_token_budget,
                   attitude_token_budget, message_token_budget, response_token_budget,
                   last, manage_call, overflow_call, notMsg>>

\* let handled = manager.handle_context_overflow(&mut context)
HandleContextOverflow ==
    /\ context # <<>>
    /\ usage_monitor.optimization_stats.overflow_events < MaxOverflowEvents
    /\ LET result == handle_context_overflow(usage_monitor, token_budget, context[1])
       IN  /\ usage_monitor' = result.monitor
           /\ context' = << result.context >>
           /\ overflow_call' = << [ before |-> context[1], after |-> result.context,
                                    returned |-> result.returned ] >>
    /\ UNCHANGED <<config, token_budget, hybrid_context_allocation, system_token_budget,
                   attitude_token_budget, message_token_budget, response_token_budget,
                   last, manage_call, notMsg>>

OverflowNext ==
    \/ \E system_prompt \in SystemPrompts,
          messages \in Prefixes(ManyMessages, {3, 5}),
          attitudes \in Prefixes(ManyAttitudes, {0, 6}),
          third_parties \in Prefixes(ManyThirdParties, {0, 4}) :
            OptimizeFullContext(system_prompt, messages, attitudes, third_parties)
    \/ HandleContextOverflow

SpecOverflow == OverflowInit /\ [][OverflowNext]_vars

\* content was removed by the last handle_context_overflow
ContentRemoved ==
    \/ Len(overflow_call[1].after.messages) < Len(overflow_call[1].before.messages)
    \/ Len(overflow_call[1].after.attitudes) < Len(overflow_call[1].before.attitudes)
    \/ Len(overflow_call[1].after.third_parties) < Len(overflow_call[1].before.third_parties)

\* C23: handle_context_overflow returns false and leaves the context as it was
\* when overflow_detected is false; when it removed messages, attitudes or third
\* parties, the total_context_tokens recorded in the context's usage_statistics
\* is lower than it was before the trim.
C23_Original ==
    overflow_call # <<>> =>
        /\ ~overflow_call[1].before.overflow_detected =>
                /\ ~overflow_call[1].returned
                /\ overflow_call[1].after = overflow_call[1].before
        /\ ContentRemoved =>
                overflow_call[1].after.usage_statistics.current_usage.total_context_tokens
                    < overflow_call[1].before.usage_statistics.current_usage.total_context_tokens

-----------------------------------------------------------------------------
(* inference_optimizer.rs: the shared InferenceOptimizer: SpecCache         *)
(* Each action is the code of one caller between two lock operations.  A   *)
(* lock is a std::sync::RwLock: a guard is taken when no conflicting guard *)
(* is held (the action is not enabled before), a panic while a write guard *)
(* is held poisons the lock, and unwrap() on a poisoned lock panics.       *)
(* write() on a lock the calling thread holds itself blocks for ever or    *)
(* panics, whichever the platform does.                                    *)

Threads == {1, 2}
\* the hashes of the prompts the callers use
Hashes == {"h1", "h2"}

\* cache_max_size (1000 in the code) and cache_ttl (3600 s), scaled down
CacheMaxSize == 2
CacheTtl == 1
\* Instant::now() ranges over 0..MaxClock
MaxClock == 1
\* get_cached_prompt is called while fewer than MaxLookups lookups were made
MaxLookups == 2
\* record_response_time is called while total_requests is below MaxRequests
MaxRequests == 1
\* durations handed to record_response_time, in nanoseconds
Durations == {2, 5}

FreeLock == [ writer |-> 0, readers |-> {}, poisoned |-> FALSE ]

CanRead(lock) == lock.writer = 0
CanWrite(lock) == lock.writer = 0 /\ lock.readers = {}

\* drop(guard) of whatever thread t holds of a lock; a write guard dropped
\* while the thread panics poisons it
Released(lock, t, panicking) ==
    [ writer |-> IF lock.writer = t THEN 0 ELSE lock.writer,
      readers |-> lock.readers \ {t},
      poisoned |-> lock.poisoned \/ (panicking /\ lock.writer = t) ]

\* cached.timestamp.elapsed() < self.cache_ttl
IsValid(cached, at) == at - cached.timestamp < CacheTtl

CacheLen(cache) == Cardinality({ h \in Hashes : cache[h] # <<>> })

Idle == [ hash |-> "", cloned |-> <<>> ]

\* InferenceOptimizer::new(), no caller inside it
CacheInit ==
    /\ prompt_cache = [ h \in Hashes |-> <<>> ]
    /\ stats = [ total_requests |-> 0, cache_hits |-> 0, cache_misses |-> 0,
                 avg_response_time |-> 0 ]
    /\ cache_lock = FreeLock /\ stats_lock = FreeLock
    /\ pc = [ t \in Threads |-> "idle" ]
    /\ local = [ t \in Threads |-> Idle ]
    /\ ret = [ t \in Threads |-> <<>> ]
    /\ now = 0
    /\ CtxIdle /\ FnIdle /\ GpuIdle /\ MonIdle /\ MsgIdle /\ SessIdle

\* the call of thread t ends: its guards are dropped
Returns(t, op, outcome) ==
    /\ pc' = [ pc EXCEPT ![t] = IF outcome = "panicked" THEN "panicked" ELSE "idle" ]
    /\ local' = [ local EXCEPT ![t] = Idle ]
    /\ ret' = [ ret EXCEPT ![t] = [ op |-> op, outcome |-> outcome ] ]
    /\ cache_lock' = Released(cache_lock, t, outcome = "panicked")
    /\ stats_lock' = Released(stats_lock, t, outcome = "panicked")

\* unwrap() on a poisoned lock
Panics(t, op) ==
    /\ Returns(t, op, "panicked")
    /\ UNCHANGED <<prompt_cache, stats, now>>

Lookups == stats.cache_hits + stats.cache_misses
              + Cardinality({ t \in Threads : pc[t] \in {"hit", "miss", "update"} })

\* get_cached_prompt, lines 96-100: let cache = self.prompt_cache.read().unwrap()
\* and the look at the entry
GetCachedPrompt_Read(t, hash) ==
    /\ pc[t] = "idle" /\ Lookups < MaxLookups
    /\ CanRead(cache_lock)
    /\ IF cache_lock.poisoned THEN Panics(t, "get_cached_prompt")
       ELSE /\ cache_lock' = [ cache_lock EXCEPT !.readers = @ \cup {t} ]
            /\ IF prompt_cache[hash] # <<>> /\ IsValid(prompt_cache[hash][1], now)
               THEN /\ pc' = [ pc EXCEPT ![t] = "hit" ]
                    /\ local' = [ local EXCEPT ![t] =
                                    [ hash |-> hash, cloned |-> prompt_cache[hash] ] ]
               ELSE /\ pc' = [ pc EXCEPT ![t] = "miss" ]
                    /\ local' = [ local EXCEPT ![t] = [ hash |-> hash, cloned |-> <<>> ] ]
            /\ UNCHANGED <<prompt_cache, stats, stats_lock, ret, now>>
    /\ UNCHANGED notCache

\* lines 102-108: let mut stats = self.stats.write().unwrap(); cache_hits += 1;
\* the clone with its hit count raised; drop(cache)
GetCachedPrompt_Hit(t) ==
    /\ pc[t] = "hit"
    /\ CanWrite(stats_lock)
    /\ IF stats_lock.poisoned THEN Panics(t, "get_cached_prompt")
       ELSE /\ stats_lock' = [ stats_lock EXCEPT !.writer = t ]
            /\ stats' = [ stats EXCEPT !.cache_hits = @ + 1 ]
            /\ local' = [ local EXCEPT ![t].cloned =
                            << [ @[1] EXCEPT !.hit_count = @ + 1 ] >> ]
            /\ cache_lock' = Released(cache_lock, t, FALSE)
            /\ pc' = [ pc EXCEPT ![t] = "update" ]
            /\ UNCHANGED <<prompt_cache, ret, now>>
    /\ UNCHANGED notCache

\* lines 111-114: let mut cache_write = self.prompt_cache.write().unwrap();
\* the insert and the return, the stats guard still held
GetCachedPrompt_Update(t) ==
    /\ pc[t] = "update"
    /\ CanWrite(cache_lock)
    /\ IF cache_lock.poisoned THEN Panics(t, "get_cached_prompt")
       ELSE /\ prompt_cache' = [ prompt_cache EXCEPT ![local[t].hash] = local[t].cloned ]
            /\ Returns(t, "get_cached_prompt", "some")
            /\ UNCHANGED <<stats, now>>
    /\ UNCHANGED notCache

\* lines 118-120: the miss, the read guard of the cache still held
GetCachedPrompt_Miss(t) ==
    /\ pc[t] = "miss"
    /\ CanWrite(stats_lock)
    /\ IF stats_lock.poisoned THEN Panics(t, "get_cached_prompt")
       ELSE /\ stats' = [ stats EXCEPT !.cache_misses = @ + 1 ]
            /\ Returns(t, "get_cached_prompt", "none")
            /\ UNCHANGED <<prompt_cache, now>>
    /\ UNCHANGED notCache

\* cache_prompt, lines 125-142: the write guard; evict_lru_entries is entered
\* with the guard held if the cache is full, else the entry is inserted
CachePrompt(t, hash) ==
    /\ pc[t] = "idle"
    /\ CanWrite(cache_lock)
    /\ IF cache_lock.poisoned THEN Panics(t, "cache_prompt")
       ELSE IF CacheLen(prompt_cache) >= CacheMaxSize
       THEN /\ cache_lock' = [ cache_lock EXCEPT !.writer = t ]
            /\ pc' = [ pc EXCEPT ![t] = "evict" ]
            /\ local' = [ local EXCEPT ![t] = [ hash |-> hash, cloned |-> <<>> ] ]
            /\ UNCHANGED <<prompt_cache, stats, stats_lock, ret, now>>
       ELSE /\ prompt_cache' = [ prompt_cache EXCEPT ![hash] =
                                   << [ timestamp |-> now, hit_count |-> 1 ] >> ]
            /\ Returns(t, "cache_prompt", "inserted")
            /\ UNCHANGED <<stats, now>>
    /\ UNCHANGED notCache

\* evict_lru_entries, line 146: self.prompt_cache.write() by the thread that
\* holds the write guard: it waits for itself for ever
EvictLruEntries_Blocks(t) ==
    /\ pc[t] = "evict" /\ cache_lock.writer = t
    /\ pc' = [ pc EXCEPT ![t] = "blocked" ]
    /\ ret' = [ ret EXCEPT ![t] = [ op |-> "cache_prompt", outcome |-> "blocked" ] ]
    /\ UNCHANGED <<prompt_cache, stats, cache_lock, stats_lock, local, now, notCache>>

\* ... or write() panics, and the guard of cache_prompt is dropped in the unwinding
EvictLruEntries_Panics(t) ==
    /\ pc[t] = "evict" /\ cache_lock.writer = t
    /\ Panics(t, "cache_prompt")
    /\ UNCHANGED notCache

\* get_cache_stats, line 303: let cache = self.prompt_cache.read().unwrap()
GetCacheStats_Read(t) ==
    /\ pc[t] = "idle"
    /\ CanRead(cache_lock)
    /\ IF cache_lock.poisoned THEN Panics(t, "get_cache_stats")
       ELSE /\ cache_lock' = [ cache_lock EXCEPT !.readers = @ \cup {t} ]
            /\ pc' = [ pc EXCEPT ![t] = "cache_stats" ]
            /\ UNCHANGED <<prompt_cache, stats, stats_lock, local, ret, now>>
    /\ UNCHANGED notCache

\* lines 304-315: let stats = self.stats.read().unwrap(), and the return
GetCacheStats_Stats(t) ==
    /\ pc[t] = "cache_stats"
    /\ CanRead(stats_lock)
    /\ IF stats_lock.poisoned THEN Panics(t, "get_cache_stats")
       ELSE /\ Returns(t, "get_cache_stats", "returned")
            /\ UNCHANGED <<prompt_cache, stats, now>>
    /\ UNCHANGED notCache

\* get_stats: self.stats.read().unwrap().clone()
GetStats(t) ==
    /\ pc[t] = "idle"
    /\ CanRead(stats_lock)
    /\ IF stats_lock.poisoned THEN Panics(t, "get_stats")
       ELSE /\ Returns(t, "get_stats", "returned")
            /\ UNCHANGED <<prompt_cache, stats, now>>
    /\ UNCHANGED notCache

\* record_response_time(duration)
RecordResponseTime(t, duration) ==
    /\ pc[t] = "idle" /\ stats.total_requests < MaxRequests
    /\ CanWrite(stats_lock)
    /\ IF stats_lock.poisoned THEN Panics(t, "record_response_time")
       ELSE /\ stats' = [ stats EXCEPT
                            !.total_requests = @ + 1,
                            !.avg_response_time =
                                (@ * stats.total_requests + duration)
                                    \div (stats.total_requests + 1) ]
            /\ Returns(t, "record_response_time", "returned")
            /\ UNCHANGED <<prompt_cache, now>>
    /\ UNCHANGED notCache

\* cleanup_cache: retain the entries younger than cache_ttl
CleanupCache(t) ==
    /\ pc[t] = "idle"
    /\ CanWrite(cache_lock)
    /\ IF cache_lock.poisoned THEN Panics(t, "cleanup_cache")
       ELSE /\ prompt_cache' = [ h \in Hashes |->
                                   IF prompt_cache[h] # <<>> /\ IsValid(prompt_cache[h][1], now)
                                   THEN prompt_cache[h] ELSE <<>> ]
            /\ Returns(t, "cleanup_cache", "returned")
            /\ UNCHANGED <<stats, now>>
    /\ UNCHANGED notCache

\* time passes
Tick ==
    /\ now < MaxClock
    /\ now' = now + 1
    /\ UNCHANGED <<prompt_cache, stats, cache_lock, stats_lock, pc, local, ret, notCache>>

CacheNext ==
    \/ \E t \in Threads, hash \in Hashes : GetCachedPrompt_Read(t, hash)
    \/ \E t \in Threads : GetCachedPrompt_Hit(t)
    \/ \E t \in Threads : GetCachedPrompt_Update(t)
    \/ \E t \in Threads : GetCachedPrompt_Miss(t)
    \/ \E t \in Threads, hash \in Hashes : CachePrompt(t, hash)
    \/ \E t \in Threads : EvictLruEntries_Blocks(t)
    \/ \E t \in Threads : EvictLruEntries_Panics(t)
    \/ \E t \in Threads : GetCacheStats_Read(t)
    \/ \E t \in Threads : GetCacheStats_Stats(t)
    \/ \E t \in Threads : GetStats(t)
    \/ \E t \in Threads, duration \in Durations : RecordResponseTime(t, duration)
    \/ \E t \in Threads : CleanupCache(t)
    \/ Tick

SpecCache == CacheInit /\ [][CacheNext]_vars

\* C24: a cache_prompt call that finds the cache holding cache_max_size entries
\* evicts, inserts its entry and returns: no such call ends blocked or in a
\* panic, every call that returned has left its entry in the cache, and the
\* cache never holds more than cache_max_size entries.
C24_Original ==
    /\ \A t \in Threads :
          (ret[t] # <<>> /\ ret[t].op = "cache_prompt") => ret[t].outcome = "inserted"
    /\ CacheLen(prompt_cache) <= CacheMaxSize

\* the lock and the mode the next step of thread t asks for
Wants(t) ==
    CASE pc[t] \in {"hit", "miss"} -> [ lock |-> "stats", write |-> TRUE ]
      [] pc[t] = "update"          -> [ lock |-> "prompt_cache", write |-> TRUE ]
      [] pc[t] = "cache_stats"     -> [ lock |-> "stats", write |-> FALSE ]
      [] pc[t] \in {"evict", "blocked"} -> [ lock |-> "prompt_cache", write |-> TRUE ]
      [] OTHER                     -> [ lock |-> "", write |-> FALSE ]

\* thread u holds a guard that keeps thread t from the lock it asks for
WaitsFor(t, u) ==
    LET lock == IF Wants(t).lock = "stats" THEN stats_lock ELSE cache_lock
    IN  /\ Wants(t).lock # ""
        /\ \/ lock.writer = u
           \/ Wants(t).write /\ u \in lock.readers

\* C28: no two callers of the shared optimizer wait on each other: whenever a
\* thread waits for a lock another thread holds, that thread is not waiting for
\* a lock the first one holds.
C28_Original ==
    \A t, u \in Threads : t # u => ~(WaitsFor(t, u) /\ WaitsFor(u, t))

-----------------------------------------------------------------------------
(* session_manager.rs: the shared SessionManager: SpecSession, SpecAttitude *)
(* Each action is the code of one caller inside one lock of the session    *)
(* map; a Result is <<>> for Err and <<value>> for Ok.  Uuid::new_v4() is  *)
(* a counter: it never repeats an id.  One companion is served.            *)

\* Uuid::new_v4() gives the ids 1..MaxSessions
MaxSessions == 2
\* Utc::now() ranges over 0..MaxUtc minutes
MaxUtc == 2
\* SessionManager::new(timeout_minutes)
SessionTimeout == 1

SessionIds == 1..MaxSessions
SessionThreads == {1, 2}

\* (target_id, target_type) of the attitudes, and the attitudes a caller stores
Targets == { <<1, "user">>, <<2, "third_party">> }
TargetOf(attitude) == << attitude.target_id, attitude.target_type >>
StoredAttitudes ==
    { [ target_id |-> 1, target_type |-> "user", trust |-> 20 ],
      [ target_id |-> 2, target_type |-> "third_party", trust |-> 10 ] }

NoRows == [ k \in Targets |-> <<>> ]

\* Database::get_all_companion_attitudes: the rows of the companion
get_all_companion_attitudes(db) == db[<<1, "user">>] \o db[<<2, "third_party">>]

\* Database::create_or_update_attitude for every attitude of a list, in order
RECURSIVE PersistAll(_, _, _)
PersistAll(db, attitude_state, n) ==
    IF n = 0 THEN db
    ELSE [ PersistAll(db, attitude_state, n - 1) EXCEPT
             ![TargetOf(attitude_state[n])] = << attitude_state[n] >> ]

\* is_session_expired: Utc::now() - session.last_activity > timeout
is_session_expired(session, at) == at - session.last_activity > SessionTimeout

\* Mutant of get_session: an ended session is still found
get_session_IgnoresActive(map, at, session_id) ==
    IF map[session_id] # <<>> /\ ~is_session_expired(map[session_id][1], at)
    THEN map[session_id] ELSE <<>>

\* get_session(session_id): Ok(session) or Err
get_session(map, at, session_id) ==
    IF /\ map[session_id] # <<>>
       /\ map[session_id][1].is_active
       /\ ~is_session_expired(map[session_id][1], at)
    THEN map[session_id] ELSE <<>>

\* the map after create_session has inserted its session (companion_id,
\* user_id and created_at are written once and read by nothing)
create_session(map, session_id, at, attitude_state) ==
    [ map EXCEPT ![session_id] =
        << [ id |-> session_id, last_activity |-> at,
             attitude_state |-> attitude_state, is_active |-> TRUE ] >> ]

\* the map after cleanup_expired_sessions
cleanup_expired_sessions(map, at) ==
    [ id \in SessionIds |->
        IF map[id] # <<>> /\ is_session_expired(map[id][1], at) THEN <<>> ELSE map[id] ]

RECURSIVE ExpiredAttitudes(_, _, _)
\* the attitudes cleanup_expired_sessions persists, of the sessions 1..n
ExpiredAttitudes(map, at, n) ==
    IF n = 0 THEN <<>>
    ELSE ExpiredAttitudes(map, at, n - 1)
            \o (IF map[n] # <<>> /\ is_session_expired(map[n][1], at)
                THEN map[n][1].attitude_state ELSE <<>>)

\* update_attitude, lines 129-139: the attitude replaces the first entry for
\* its target or is pushed
UpdatedState(attitude_state, attitude) ==
    LET found == { i \in 1..Len(attitude_state) :
                      TargetOf(attitude_state[i]) = TargetOf(attitude) }
    IN  IF found # {}
        THEN [ attitude_state EXCEPT ![CHOOSE i \in found : \A j \in found : i <= j] = attitude ]
        ELSE Append(attitude_state, attitude)

NoLocal == [ arg |-> <<>>, found |-> FALSE, after_end |-> FALSE ]

\* threads that may still call create_session
Creating == Cardinality({ t \in SessionThreads : session_pc[t] \in {"lookup", "create"} })

\* thread t is back outside the manager
Back(t) ==
    /\ session_pc' = [ session_pc EXCEPT ![t] = "idle" ]
    /\ session_local' = [ session_local EXCEPT ![t] = NoLocal ]

\* create_session(companion_id, user_id): the attitudes are loaded, or none
\* if the load fails, and the session is stored
CreateSession(t, db_ok) ==
    /\ session_pc[t] = "idle" /\ next_uuid + Creating <= MaxSessions
    /\ sessions' = create_session(sessions, next_uuid, utc_now,
                                  IF db_ok THEN get_all_companion_attitudes(database) ELSE <<>>)
    /\ next_uuid' = next_uuid + 1
    /\ session_ret' = [ op |-> "create_session", ok |-> TRUE, id |-> next_uuid ]
    /\ UNCHANGED <<utc_now, database, session_pc, session_local, ended, notSess>>

\* get_session(session_id)
GetSession(t, session_id) ==
    /\ session_pc[t] = "idle"
    /\ session_ret' = [ op |-> "get_session", arg |-> session_id,
                        after_end |-> session_id \in ended,
                        ok |-> get_session(sessions, utc_now, session_id) # <<>> ]
    /\ UNCHANGED <<sessions, utc_now, next_uuid, database, session_pc, session_local,
                   ended, notSess>>

\* get_or_create_session, line 83: self.cleanup_expired_sessions()?
GetOrCreateSession_Cleanup(t, arg, db_ok) ==
    /\ session_pc[t] = "idle" /\ next_uuid + Creating < MaxSessions + 1
    /\ sessions' = cleanup_expired_sessions(sessions, utc_now)
    /\ database' = IF db_ok
                   THEN LET attitudes == ExpiredAttitudes(sessions, utc_now, MaxSessions)
                        IN  PersistAll(database, attitudes, Len(attitudes))
                   ELSE database
    /\ session_pc' = [ session_pc EXCEPT ![t] = "lookup" ]
    /\ session_local' = [ session_local EXCEPT ![t] =
                            [ arg |-> arg, found |-> FALSE,
                              after_end |-> arg # <<>> /\ arg[1] \in ended ] ]
    /\ UNCHANGED <<utc_now, next_uuid, session_ret, ended, notSess>>

\* lines 85-86: if let Some(id) = session_id, if let Ok(session) = self.get_session(id)
GetOrCreateSession_Lookup(t) ==
    /\ session_pc[t] = "lookup"
    /\ LET found == IF session_local[t].arg = <<>> THEN <<>>
                    ELSE get_session(sessions, utc_now, session_local[t].arg[1])
       IN  /\ session_pc' = [ session_pc EXCEPT ![t] = IF found # <<>> THEN "touch" ELSE "create" ]
           /\ session_local' = [ session_local EXCEPT ![t].found = found # <<>> ]
    /\ UNCHANGED <<sessions, utc_now, next_uuid, database, session_ret, ended, notSess>>

\* lines 88-89: self.update_activity(id)?; return Ok(session)
GetOrCreateSession_Touch(t) ==
    /\ session_pc[t] = "touch"
    /\ LET id == session_local[t].arg[1]
           present == sessions[id] # <<>>
       IN  /\ sessions' = IF present
                          THEN [ sessions EXCEPT ![id] =
                                   << [ @[1] EXCEPT !.last_activity = utc_now ] >> ]
                          ELSE sessions
           /\ session_ret' = [ op |-> "get_or_create_session", arg |-> session_local[t].arg,
                               after_end |-> session_local[t].after_end,
                               ok |-> present,
                               id |-> id, created |-> FALSE,
                               in_map |-> present,
                               active |-> present /\ sessions[id][1].is_active ]
    /\ Back(t)
    /\ UNCHANGED <<utc_now, next_uuid, database, ended, notSess>>

\* line 94: self.create_session(companion_id, user_id)
GetOrCreateSession_Create(t, db_ok) ==
    /\ session_pc[t] = "create"
    /\ sessions' = create_session(sessions, next_uuid, utc_now,
                                  IF db_ok THEN get_all_companion_attitudes(database) ELSE <<>>)
    /\ next_uuid' = next_uuid + 1
    /\ session_ret' = [ op |-> "get_or_create_session", arg |-> session_local[t].arg,
                        after_end |-> session_local[t].after_end,
                        ok |-> TRUE, id |-> next_uuid, created |-> TRUE,
                        in_map |-> TRUE, active |-> TRUE ]
    /\ Back(t)
    /\ UNCHANGED <<utc_now, database, ended, notSess>>

\* end_session, line 201: self.persist_session(session_id)?
EndSession_Persist(t, session_id, db_ok) ==
    /\ session_pc[t] = "idle"
    /\ LET present == sessions[session_id] # <<>>
           attitude_state == IF present THEN sessions[session_id][1].attitude_state ELSE <<>>
           persisted == present /\ (attitude_state = <<>> \/ db_ok)
       IN  IF persisted
           THEN /\ database' = PersistAll(database, attitude_state, Len(attitude_state))
                /\ session_pc' = [ session_pc EXCEPT ![t] = "mark" ]
                /\ session_local' = [ session_local EXCEPT ![t] =
                                        [ NoLocal EXCEPT !.arg = << session_id >> ] ]
                /\ UNCHANGED session_ret
           ELSE /\ session_ret' = [ op |-> "end_session", arg |-> session_id, ok |-> FALSE ]
                /\ UNCHANGED <<database, session_pc, session_local>>
    /\ UNCHANGED <<sessions, utc_now, next_uuid, ended, notSess>>

\* lines 204-211: the session is marked inactive if it is still there; Ok(())
EndSession_Mark(t) ==
    /\ session_pc[t] = "mark"
    /\ LET id == session_local[t].arg[1]
       IN  /\ sessions' = IF sessions[id] # <<>>
                          THEN [ sessions EXCEPT ![id] = << [ @[1] EXCEPT !.is_active = FALSE ] >> ]
                          ELSE sessions
           /\ session_ret' = [ op |-> "end_session", arg |-> id, ok |-> TRUE ]
           /\ ended' = ended \cup {id}
    /\ Back(t)
    /\ UNCHANGED <<utc_now, next_uuid, database, notSess>>

\* cleanup_expired_sessions(): the attitudes of the expired sessions are
\* written (errors ignored) and the sessions removed
CleanupExpiredSessions(t, db_ok) ==
    /\ session_pc[t] = "idle"
    /\ sessions' = cleanup_expired_sessions(sessions, utc_now)
    /\ database' = IF db_ok
                   THEN LET attitudes == ExpiredAttitudes(sessions, utc_now, MaxSessions)
                        IN  PersistAll(database, attitudes, Len(attitudes))
                   ELSE database
    /\ session_ret' = [ op |-> "cleanup_expired_sessions", ok |-> TRUE ]
    /\ UNCHANGED <<utc_now, next_uuid, session_pc, session_local, ended, notSess>>

\* update_attitude(session_id, attitude)
UpdateAttitude(t, session_id, attitude, db_ok) ==
    /\ session_pc[t] = "idle"
    /\ LET present == sessions[session_id] # <<>>
       IN  /\ sessions' = IF present
                          THEN [ sessions EXCEPT ![session_id] =
                                   << [ @[1] EXCEPT
                                          !.attitude_state = UpdatedState(@, attitude),
                                          !.last_activity = utc_now ] >> ]
                          ELSE sessions
           /\ database' = IF present /\ db_ok
                          THEN [ database EXCEPT ![TargetOf(attitude)] = << attitude >> ]
                          ELSE database
           /\ session_ret' = [ op |-> "update_attitude", arg |-> session_id,
                               attitude |-> attitude, ok |-> present /\ db_ok,
                               before |-> sessions[session_id],
                               after |-> sessions'[session_id] ]
    /\ UNCHANGED <<utc_now, next_uuid, session_pc, session_local, ended, notSess>>

\* a minute passes
SessionTick ==
    /\ utc_now < MaxUtc
    /\ utc_now' = utc_now + 1
    /\ UNCHANGED <<sessions, next_uuid, database, session_pc, session_local, session_ret,
                   ended, notSess>>

\* SessionManager::new(timeout_minutes) and a database without attitudes
SessionInit ==
    /\ sessions = [ id \in SessionIds |-> <<>> ]
    /\ utc_now = 0 /\ next_uuid = 1
    /\ database = NoRows
    /\ session_pc = [ t \in SessionThreads |-> "idle" ]
    /\ session_local = [ t \in SessionThreads |-> NoLocal ]
    /\ session_ret = <<>>
    /\ ended = {}
    /\ CtxIdle /\ FnIdle /\ GpuIdle /\ MonIdle /\ MsgIdle /\ CacheIdle

SessionNext ==
    \/ \E t \in SessionThreads, db_ok \in BOOLEAN : CreateSession(t, db_ok)
    \/ \E t \in SessionThreads, id \in SessionIds : GetSession(t, id)
    \/ \E t \in SessionThreads, arg \in { <<>> } \cup { << id >> : id \in SessionIds },
          db_ok \in BOOLEAN : GetOrCreateSession_Cleanup(t, arg, db_ok)
    \/ \E t \in SessionThreads : GetOrCreateSession_Lookup(t)
    \/ \E t \in SessionThreads : GetOrCreateSession_Touch(t)
    \/ \E t \in SessionThreads, db_ok \in BOOLEAN : GetOrCreateSession_Create(t, db_ok)
    \/ \E t \in SessionThreads, id \in SessionIds, db_ok \in BOOLEAN :
            EndSession_Persist(t, id, db_ok)
    \/ \E t \in SessionThreads : EndSession_Mark(t)
    \/ \E t \in SessionThreads, db_ok \in BOOLEAN : CleanupExpiredSessions(t, db_ok)
    \/ SessionTick

SpecSession == SessionInit /\ [][SessionNext]_vars

\* get_session(id) would succeed now
Retrievable(id) == get_session(sessions, utc_now, id) # <<>>

\* what holds in every state of a session's life
SessionLifetime ==
    /\ \A id \in SessionIds :
          (/\ sessions[id] # <<>>
           /\ sessions[id][1].is_active
           /\ ~is_session_expired(sessions[id][1], utc_now))
              => /\ Retrievable(id)
                 /\ get_session(sessions, utc_now, id)[1].id = id
    /\ \A id \in ended : ~Retrievable(id)
    /\ (session_ret # <<>> /\ session_ret.op = "get_session" /\ session_ret.after_end)
          => ~session_ret.ok
    /\ (session_ret # <<>> /\ session_ret.op = "get_or_create_session" /\ session_ret.after_end)
          => /\ session_ret.ok
             /\ session_ret.created
             /\ session_ret.id # session_ret.arg[1]

\* a retrievable session is not dropped from the map, and a session just
\* created is retrievable under the id returned
StaysRetrievable ==
    /\ \A id \in SessionIds : Retrievable(id) => sessions'[id] # <<>>
    /\ next_uuid' # next_uuid =>
          /\ sessions'[next_uuid] # <<>>
          /\ get_session(sessions', utc_now', next_uuid) = sessions'[next_uuid]
          /\ sessions'[next_uuid][1].id = next_uuid

\* C25: a session returned by create_session is retrievable by get_session under
\* the same id for as long as it is active and not expired; after end_session(id)
\* has succeeded get_session(id) fails, and get_or_create_session(Some(id), ...)
\* returns a newly created session with a different id.
C25_SessionLifetime == []SessionLifetime /\ [][StaysRetrievable]_vars

\* C25 witness: get_or_create_session was called with the id of an ended
\* session and has returned a new session under another id.
C25_Witness ==
    /\ session_ret # <<>> /\ session_ret.op = "get_or_create_session"
    /\ session_ret.after_end /\ session_ret.arg[1] \in ended
    /\ session_ret.ok /\ session_ret.created
    /\ session_ret.id # session_ret.arg[1]
    /\ Retrievable(session_ret.id)

\* C29: under every interleaving of get_or_create_session, cleanup_expired_sessions
\* and end_session calls, with sessions expiring at any moment, a returning
\* get_or_create_session returns Ok with a session that is in the session map
\* and active.
C29_Original ==
    (session_ret # <<>> /\ session_ret.op = "get_or_create_session") =>
        /\ session_ret.ok
        /\ session_ret.in_map
        /\ session_ret.active

\* the attitudes the database holds when the manager starts
StoredRows ==
    { NoRows,
      [ NoRows EXCEPT ![<<1, "user">>] =
            << [ target_id |-> 1, target_type |-> "user", trust |-> 10 ] >> ] }

\* one caller, a database with attitudes
AttitudeInit ==
    /\ sessions = [ id \in SessionIds |-> <<>> ]
    /\ utc_now = 0 /\ next_uuid = 1
    /\ database \in StoredRows
    /\ session_pc = [ t \in SessionThreads |-> "idle" ]
    /\ session_local = [ t \in SessionThreads |-> NoLocal ]
    /\ session_ret = <<>>
    /\ ended = {}
    /\ CtxIdle /\ FnIdle /\ GpuIdle /\ MonIdle /\ MsgIdle /\ CacheIdle

AttitudeNext ==
    \/ \E db_ok \in BOOLEAN : CreateSession(1, db_ok)
    \/ \E id \in SessionIds, attitude \in StoredAttitudes, db_ok \in BOOLEAN :
            UpdateAttitude(1, id, attitude, db_ok)
    \/ \E db_ok \in BOOLEAN : CleanupExpiredSessions(1, db_ok)
    \/ SessionTick

SpecAttitude == AttitudeInit /\ [][AttitudeNext]_vars

\* the entries of an attitude_state for the target of an attitude
EntriesFor(attitude_state, attitude) ==
    { i \in 1..Len(attitude_state) : TargetOf(attitude_state[i]) = TargetOf(attitude) }

\* C30: update_attitude is all-or-nothing: when it returns an error (the
\* database write failed or the session id is unknown) the session's
\* attitude_state and last_activity are what they were before the call; when it
\* returns Ok the attitude_state holds exactly one entry for the attitude's
\* (target_id, target_type), and that entry is the new attitude.
C30_Original ==
    (session_ret # <<>> /\ session_ret.op = "update_attitude") =>
        /\ ~session_ret.ok => session_ret.after = session_ret.before
        /\ session_ret.ok =>
              LET attitude_state == session_ret.after[1].attitude_state
                  entries == EntriesFor(attitude_state, session_ret.attitude)
              IN  /\ Cardinality(entries) = 1
                  /\ \A i \in entries : attitude_state[i] = session_ret.attitude

=============================================================================
